---------------------------- MODULE Spec2Model ----------------------------
(***************************************************************************)
(* Keyword-to-Wikidata resolution engine of wikidata/Neo4j-wikidata_v2.py  *)
(* (and its earlier variant wikidata/Neo4j-wikidata.py).                   *)
(*                                                                         *)
(* The module holds these specifications over one set of variables:        *)
(*   SpecGet    - the retry loop of the client call _get, driven by a      *)
(*                caller that issues searches and entity fetches;          *)
(*   SpecBatch  - wbgetentities: batching of ids and merging of responses; *)
(*   SpecExpand - expand_p279_paths over a subclass-of graph;              *)
(*   SpecLevels - expand_p279_paths level by level;                        *)
(*   SpecLabels - the label lookups for the hierarchy of one entity;       *)
(*   Spec       - map_keywords over a batch of records, with the resolver  *)
(*                pick_with_context_then_exact / pick_exact_label_only.    *)
(*   SpecResolve - map_keywords over one record, every knowledge base;     *)
(*   SpecScore  - the scoring functions applied to one candidate;          *)
(*   SpecGraph  - the graph upserts applied to a graph, once and twice;    *)
(*   SpecStages - one invocation of the resolver, stage by stage;          *)
(*   SpecShapes - the keyword consumers applied to one record;             *)
(*   SpecPool   - the worker pool of wikidata/mapping.py.                  *)
(* A specification leaves the variables of the other components at their   *)
(* idle values.                                                            *)
(*                                                                         *)
(* Entity ids are the numbers of their Q-ids (Q4167410 is 4167410).        *)
(* Times are in milliseconds (0.5 s is 500).                               *)
(***************************************************************************)
EXTENDS Integers, Sequences, FiniteSets, TLC

VARIABLES
    \* ---- client: _get -------------------------------------------------
    gpc,        \* "idle" | "attempt" | "returned" | "raised"
    attempt,    \* loop variable of `for attempt in range(5)`
    sleep_sec,  \* parameter sleep_sec of the running call
    call_kind,  \* which caller started the running call
    reqs,       \* outcome of each requests.get of the running call, in order
    delays,     \* the time.sleep arguments of the except branch, this call
    trace,      \* every request and every sleep of the run, in order
    ncalls,     \* calls of _get started so far in the run
    lastErr,    \* what the last failed attempt raised
    \* ---- wbgetentities ------------------------------------------------
    bpc,        \* "ready" | "done"
    b_ids,      \* argument ids
    b_srv,      \* which ids the server knows: [m |-> modulus, r |-> residue]
    b_sent,     \* the batches sent, in order
    b_out,      \* the returned dictionary `combined`
    \* ---- expand_p279_paths --------------------------------------------
    epc,        \* "ready" | "done"
    e_graph,    \* subclass-of claims of the server: node -> list of parents
    e_start,    \* argument start_parents
    e_levels,   \* argument max_levels
    e_paths,    \* the returned list of paths
    \* ---- map_keywords ------------------------------------------------
    pc,         \* "idle" | "running" (at the head of the inner loop) |
                \* "picked" (the resolver has returned) | "returned" | "raised"
    kb,         \* the knowledge base the server answers from
    records,    \* argument records
    ri,         \* index of the record the outer loop is at
    ki,         \* index of the keyword the inner loop is at
    seen_pairs, \* set of (docid, kw) pairs
    rows,       \* the list rows being built
    cand,       \* local cand of the running pass of the inner loop
    result,     \* the value map_keywords returned
    picks,      \* per processed pair: what pick_with_context_then_exact returned
    writes,     \* graph upserts issued (run_query calls), in order
    failed,     \* the (docid, kw) pairs whose resolution exhausted the client
    \* ---- one call of a function --------------------------------------
    fpc,        \* "idle" | "called" | "returned"
    fcall,      \* the arguments of the call
    fret,       \* what the call returned
    \* ---- mapping.py: ThreadPoolExecutor(max_workers=3) ----------------
    entries,    \* keyword_entries still to be started, in order
    w_pc,       \* per worker: "free" | "set" (setQuery done) | "slept"
    w_task,     \* per worker: the entry it runs, its step and its own query
    sparql,     \* queryString of the shared SPARQLWrapper object
    executed    \* per query run: the query its task set and the query sent

clientVars ==
    <<gpc, attempt, sleep_sec, call_kind, reqs, delays, trace, ncalls, lastErr>>
batchVars  == <<bpc, b_ids, b_srv, b_sent, b_out>>
expandVars == <<epc, e_graph, e_start, e_levels, e_paths>>
runVars ==
    <<pc, kb, records, ri, ki, seen_pairs, rows, cand, result, picks, writes, failed>>
callVars == <<fpc, fcall, fret>>
poolVars == <<entries, w_pc, w_task, sparql, executed>>
vars == <<clientVars, batchVars, expandVars, runVars, callVars, poolVars>>

(***************************************************************************)
(* Generic helpers on sequences and dictionaries.                          *)
(***************************************************************************)
Range(s) == {s[i] : i \in DOMAIN s}

Last(s) == s[Len(s)]

Contains(s, x) == \E i \in DOMAIN s : s[i] = x

NoDup(s) == \A i, j \in DOMAIN s : i # j => s[i] # s[j]

Min(a, b) == IF a <= b THEN a ELSE b

\* dict.update(other): keys of other overwrite, every other key is kept
DictUpdate(d, other) ==
    [k \in DOMAIN d \cup DOMAIN other |->
        IF k \in DOMAIN other THEN other[k] ELSE d[k]]

EmptyDict == [k \in {} |-> 0]

(***************************************************************************)
(* Client: _get(params, sleep_sec)                                         *)
(***************************************************************************)
MAX_ATTEMPTS == 5
BACKOFF_UNIT_MS == 500
SEARCH_SLEEP_MS == 100
ENTITY_SLEEP_MS == 50

\* bound: calls of _get one run of the caller makes
MaxCalls == 2

\* the ways one attempt fails inside the try block
FailureKinds == {"timeout", "http_status", "bad_json", "error_field"}

\* wbsearchentities / wbsearch_label_only use the default sleep_sec,
\* wbgetentities passes sleep_sec=0.05
CallKinds == {"search", "entities"}

SleepFor(kind) == IF kind = "search" THEN SEARCH_SLEEP_MS ELSE ENTITY_SLEEP_MS

Req(kind, ok) == [ev |-> "request", kind |-> kind, ok |-> ok, ms |-> 0]

Sleep(ms) == [ev |-> "sleep", kind |-> "none", ok |-> TRUE, ms |-> ms]

BackoffDoubling(a) == BACKOFF_UNIT_MS * (2 ^ a)

\* time.sleep(0.5 * (attempt + 1))
Backoff(a) == BACKOFF_UNIT_MS * (a + 1)

LastAttemptEarly(a) == a = MAX_ATTEMPTS - 2

\* if attempt == 4: raise
LastAttempt(a) == a = MAX_ATTEMPTS - 1

SuccessTailNoSleep(kind, ms) == <<Req(kind, TRUE)>>

\* the try block when nothing raises: the request, then time.sleep(sleep_sec)
SuccessTail(kind, ms) == <<Req(kind, TRUE), Sleep(ms)>>

ClientIdle ==
    /\ gpc = "idle"
    /\ attempt = 0
    /\ sleep_sec = 0
    /\ call_kind = "none"
    /\ reqs = <<>>
    /\ delays = <<>>
    /\ trace = <<>>
    /\ ncalls = 0
    /\ lastErr = "none"

\* the idle values of the other components' variables
BatchIdle ==
    /\ bpc = "idle"
    /\ b_ids = <<>>
    /\ b_srv = EmptyDict
    /\ b_sent = <<>>
    /\ b_out = EmptyDict

ExpandIdle ==
    /\ epc = "idle"
    /\ e_graph = EmptyDict
    /\ e_start = <<>>
    /\ e_levels = 0
    /\ e_paths = <<>>

RunIdle ==
    /\ pc = "idle"
    /\ kb = EmptyDict
    /\ records = <<>>
    /\ ri = 0
    /\ ki = 0
    /\ seen_pairs = {}
    /\ rows = <<>>
    /\ cand = EmptyDict
    /\ result = <<>>
    /\ picks = <<>>
    /\ writes = <<>>
    /\ failed = {}

CallIdle ==
    /\ fpc = "idle"
    /\ fcall = EmptyDict
    /\ fret = EmptyDict

PoolIdle ==
    /\ entries = <<>>
    /\ w_pc = EmptyDict
    /\ w_task = EmptyDict
    /\ sparql = <<0, "none">>
    /\ executed = {}

\* a caller (wbsearchentities, wbsearch_label_only, wbgetentities) calls _get
GetCall(kind) ==
    /\ gpc \in {"idle", "returned"}
    /\ ncalls < MaxCalls
    /\ gpc' = "attempt"
    /\ attempt' = 0
    /\ sleep_sec' = SleepFor(kind)
    /\ call_kind' = kind
    /\ reqs' = <<>>
    /\ delays' = <<>>
    /\ ncalls' = ncalls + 1
    /\ UNCHANGED <<trace, lastErr>>

\* one iteration of the loop in which the try block runs to `return data`
AttemptSucceeds ==
    /\ gpc = "attempt"
    /\ reqs' = Append(reqs, TRUE)
    /\ trace' = trace \o SuccessTail(call_kind, sleep_sec)
    /\ gpc' = "returned"
    /\ UNCHANGED <<attempt, sleep_sec, call_kind, delays, ncalls, lastErr>>

\* one iteration in which the try block raises: requests.get (timeout),
\* raise_for_status (non-2xx), r.json (malformed payload) or the RuntimeError
\* for a payload with an "error" field
AttemptFails(kind) ==
    /\ gpc = "attempt"
    /\ reqs' = Append(reqs, FALSE)
    /\ lastErr' = kind
    /\ IF LastAttempt(attempt)
       THEN /\ gpc' = "raised"
            /\ trace' = Append(trace, Req(call_kind, FALSE))
            /\ UNCHANGED <<attempt, delays>>
       ELSE /\ gpc' = "attempt"
            /\ trace' = trace \o <<Req(call_kind, FALSE), Sleep(Backoff(attempt))>>
            /\ delays' = Append(delays, Backoff(attempt))
            /\ attempt' = attempt + 1
    /\ UNCHANGED <<sleep_sec, call_kind, ncalls>>

(***************************************************************************)
(* wbgetentities(ids, languages)                                           *)
(*                                                                         *)
(* The server is a dictionary id -> entity detail of the ids it knows; the *)
(* response to one request holds the entities of the requested ids it      *)
(* knows and nothing for the others.                                       *)
(***************************************************************************)
BATCH_SIZE == 50

\* bound: longest id list passed to wbgetentities
MaxIds == 101

\* for i in range(0, len(seq), size): yield seq[i:i + size]
Chunked(seq, size) ==
    [b \in 1..((Len(seq) + size - 1) \div size) |->
        SubSeq(seq, (b - 1) * size + 1, Min(b * size, Len(seq)))]

\* data.get("entities", {}) of the response to one batch
ServerEntities(srv, batch) == [k \in Range(batch) \cap DOMAIN srv |-> srv[k]]

DictReplace(d, other) == other

\* combined.update(data.get("entities", {}))
MergeResponse(d, other) == DictUpdate(d, other)

RECURSIVE MergeBatches(_, _, _)
MergeBatches(srv, batches, combined) ==
    IF batches = <<>> THEN combined
    ELSE MergeBatches(srv, Tail(batches),
                      MergeResponse(combined, ServerEntities(srv, Head(batches))))

WbGetEntities(srv, ids) == MergeBatches(srv, Chunked(ids, BATCH_SIZE), EmptyDict)

\* the id lists: 1..n, or 1..n with the ids repeating after `period` entries
IdList(n, period) == [i \in 1..n |-> ((i - 1) % period) + 1]

\* the servers: the ids of 1..MaxIds whose residue modulo m is not r
ServerOf(m, r) == [k \in {i \in 1..MaxIds : i % m # r} |-> [id |-> k]]

InitBatch ==
    /\ ClientIdle
    /\ CallIdle
    /\ PoolIdle
    /\ ExpandIdle
    /\ RunIdle
    /\ bpc = "ready"
    /\ \E n \in 0..MaxIds, period \in {7, 60, MaxIds} : b_ids = IdList(n, period)
    /\ \E m \in 1..3 : \E r \in 0..m : b_srv = ServerOf(m, r)
    /\ b_sent = <<>>
    /\ b_out = EmptyDict

\* one call wbgetentities(b_ids), every _get of it returning
WbGetEntitiesCall ==
    /\ bpc = "ready"
    /\ b_sent' = Chunked(b_ids, BATCH_SIZE)
    /\ b_out' = WbGetEntities(b_srv, b_ids)
    /\ bpc' = "done"
    /\ UNCHANGED <<b_ids, b_srv>>

NextBatch == WbGetEntitiesCall /\ UNCHANGED <<clientVars, expandVars, runVars, callVars, poolVars>>

SpecBatch == InitBatch /\ [][NextBatch]_vars

(***************************************************************************)
(* expand_p279_paths(start_parents, max_levels, languages)                 *)
(*                                                                         *)
(* The graph is the server's answer: node -> list of its subclass-of (P279)*)
(* ids, in server order.                                                   *)
(***************************************************************************)
\* bound: nodes of the subclass-of graph
NNodes == 3

\* bound: largest max_levels passed
MaxLevels == 3

Nodes == 1..NNodes

RECURSIVE AscSeq(_)
AscSeq(S) ==
    IF S = {} THEN <<>>
    ELSE LET m == CHOOSE x \in S : \A y \in S : x <= y
         IN <<m>> \o AscSeq(S \ {m})

\* _claim_ids(wbgetentities([current], languages).get(current, {}), P_SUBCLASS_OF)
Parents(graph, node) == IF node \in DOMAIN graph THEN graph[node] ELSE <<>>

RECURSIVE Terminated(_, _)
\* the paths of the frontier whose last node has no parents, in frontier order
Terminated(graph, frontier) ==
    IF frontier = <<>> THEN <<>>
    ELSE LET path == Head(frontier)
         IN (IF Parents(graph, Last(path)) = <<>> THEN <<path>> ELSE <<>>)
            \o Terminated(graph, Tail(frontier))

RECURSIVE Extended(_, _)
\* new_frontier: every path extended by each parent of its last node
Extended(graph, frontier) ==
    IF frontier = <<>> THEN <<>>
    ELSE LET path == Head(frontier)
             pars == Parents(graph, Last(path))
         IN [i \in 1..Len(pars) |-> Append(path, pars[i])]
            \o Extended(graph, Tail(frontier))

IterationsOffByOne(max_levels) == max_levels

\* for _ in range(max_levels - 1)
Iterations(max_levels) == max_levels - 1

RECURSIVE ExpandLevels(_, _, _, _)
\* k iterations of the level loop; the result is <<paths, frontier>>
ExpandLevels(graph, frontier, paths, k) ==
    IF k <= 0 THEN <<paths, frontier>>
    ELSE LET new_frontier == Extended(graph, frontier)
         IN ExpandLevels(graph,
                         IF new_frontier # <<>> THEN new_frontier ELSE frontier,
                         paths \o Terminated(graph, frontier),
                         k - 1)

\* a return without the loop over the last frontier
WithoutFrontier(paths, frontier) == paths

RECURSIVE AppendNew(_, _)
\* for p in frontier: if p not in paths: paths.append(p)
AppendNew(paths, frontier) ==
    IF frontier = <<>> THEN paths
    ELSE AppendNew(IF Contains(paths, Head(frontier)) THEN paths
                   ELSE Append(paths, Head(frontier)),
                   Tail(frontier))

expand_p279_paths(graph, start_parents, max_levels) ==
    IF start_parents = <<>> THEN <<>>
    ELSE LET r == ExpandLevels(graph,
                               [i \in 1..Len(start_parents) |-> <<start_parents[i]>>],
                               <<>>, Iterations(max_levels))
         IN AppendNew(r[1], r[2])

\* the graphs: every node has at most two parents, listed in ascending order
ParentLists == {AscSeq(S) : S \in {T \in SUBSET Nodes : Cardinality(T) <= 2}}

\* the direct superclass lists the expansion starts from
StartChoices == {<<1>>, <<1, 2>>}

InitExpand ==
    /\ ClientIdle
    /\ CallIdle
    /\ PoolIdle
    /\ BatchIdle
    /\ RunIdle
    /\ epc = "ready"
    /\ e_graph \in [Nodes -> ParentLists]
    /\ e_start \in StartChoices
    /\ e_levels \in 1..MaxLevels
    /\ e_paths = <<>>

\* one call expand_p279_paths(e_start, e_levels, LANGS), every client call
\* of it returning
ExpandCall ==
    /\ epc = "ready"
    /\ e_paths' = expand_p279_paths(e_graph, e_start, e_levels)
    /\ epc' = "done"
    /\ UNCHANGED <<e_graph, e_start, e_levels>>

NextExpand == ExpandCall /\ UNCHANGED <<clientVars, batchVars, runVars, callVars, poolVars>>

SpecExpand == InitExpand /\ [][NextExpand]_vars

(***************************************************************************)
(* expand_p279_paths level by level.  fcall is the call (graph,            *)
(* start_parents, max_levels), fpc the position in the function, fret the  *)
(* locals: frontier, paths and the number of finished iterations.          *)
(***************************************************************************)
\* the graphs of the level-by-level runs: the first node has up to two
\* parents, the others at most one; cycles and self-loops included
LevelGraphs == {g \in [Nodes -> ParentLists] : \A n \in Nodes : n > 1 => Len(g[n]) <= 1}

InitLevels ==
    /\ ClientIdle
    /\ BatchIdle
    /\ ExpandIdle
    /\ RunIdle
    /\ PoolIdle
    /\ fpc = "called"
    /\ fcall \in [graph : LevelGraphs,
                   start_parents : StartChoices \cup {<<>>},
                   max_levels : 1..MaxLevels]
    /\ fret = EmptyDict

\* if not start_parents: return []
ReturnEmpty ==
    /\ fpc = "called"
    /\ fcall.start_parents = <<>>
    /\ fret' = [frontier |-> <<>>, paths |-> <<>>, level |-> 0]
    /\ fpc' = "returned"
    /\ UNCHANGED fcall

\* paths = []; frontier = [[p] for p in start_parents]
StartFrontier ==
    /\ fpc = "called"
    /\ fcall.start_parents # <<>>
    /\ fret' = [frontier |-> [i \in DOMAIN fcall.start_parents |-> <<fcall.start_parents[i]>>],
                paths |-> <<>>, level |-> 0]
    /\ fpc' = "loop"
    /\ UNCHANGED fcall

\* a level loop that has no bound
HasNextLevelAlways(level, max_levels) == TRUE

\* for _ in range(max_levels - 1): is there a next iteration
HasNextLevel(level, max_levels) == level < Iterations(max_levels)

\* one iteration of the level loop, every client call returning
ExpandLevel ==
    /\ fpc = "loop"
    /\ HasNextLevel(fret.level, fcall.max_levels)
    /\ LET new_frontier == Extended(fcall.graph, fret.frontier)
       IN  fret' = [frontier |-> IF new_frontier # <<>> THEN new_frontier ELSE fret.frontier,
                    paths |-> fret.paths \o Terminated(fcall.graph, fret.frontier),
                    level |-> fret.level + 1]
    /\ UNCHANGED <<fpc, fcall>>

\* the loop is exhausted: for p in frontier: if p not in paths: paths.append(p);
\* return paths
ReturnPaths ==
    /\ fpc = "loop"
    /\ ~HasNextLevel(fret.level, fcall.max_levels)
    /\ fret' = [fret EXCEPT !.paths = AppendNew(fret.paths, fret.frontier)]
    /\ fpc' = "returned"
    /\ UNCHANGED fcall

NextLevels ==
    \/ ReturnEmpty /\ UNCHANGED <<clientVars, batchVars, expandVars, runVars, poolVars>>
    \/ StartFrontier /\ UNCHANGED <<clientVars, batchVars, expandVars, runVars, poolVars>>
    \/ ExpandLevel /\ UNCHANGED <<clientVars, batchVars, expandVars, runVars, poolVars>>
    \/ ReturnPaths /\ UNCHANGED <<clientVars, batchVars, expandVars, runVars, poolVars>>

\* the function is one thread of straight-line code: a step that can be taken
\* is taken
SpecLevels == InitLevels /\ [][NextLevels]_vars /\ WF_vars(NextLevels)

InitGet == ClientIdle /\ BatchIdle /\ ExpandIdle /\ RunIdle /\ CallIdle /\ PoolIdle

NextGet ==
    \/ \E kind \in CallKinds : GetCall(kind) /\ UNCHANGED <<batchVars, expandVars, runVars, callVars, poolVars>>
    \/ AttemptSucceeds /\ UNCHANGED <<batchVars, expandVars, runVars, callVars, poolVars>>
    \/ \E kind \in FailureKinds : AttemptFails(kind) /\ UNCHANGED <<batchVars, expandVars, runVars, callVars, poolVars>>

SpecGet == InitGet /\ [][NextGet]_vars

(***************************************************************************)
(* Text.  A string is one word: a stem w (0 is the empty string), a suffix *)
(* sfx, whether its first letter is a capital (cap) and whether blanks or  *)
(* the separators ';' ',' surround it (pad).  Stems stand for words of     *)
(* more than two letters that do not end in 's'.  A text (description,     *)
(* context, aliases) is a sequence of words.                               *)
(***************************************************************************)
Word(w, sfx) == [w |-> w, sfx |-> sfx, cap |-> FALSE, pad |-> FALSE]

EmptyStr == Word(0, "")

\* the text str(q) of an id, used where the code falls back to the id
IdText(q) == Word(q, "id")

\* strip blanks, NBSP and BOM, collapse blanks, strip ';' ',' ' '
normalize_kw(s) == IF s.w = 0 THEN EmptyStr ELSE [s EXCEPT !.pad = FALSE]

\* str.lower()
Lower(s) == [s EXCEPT !.cap = FALSE]

\* "...ies" -> "...y"; "...ses" -> the last two characters dropped, "...s";
\* a final "s" that is not
\* "ss" -> dropped; anything else unchanged
singularize_en(word) ==
    LET w == normalize_kw(word)
    IN  CASE w.sfx = "ies" -> [w EXCEPT !.sfx = "y"]
          [] w.sfx = "ses" -> [w EXCEPT !.sfx = "s"]
          [] w.sfx = "s"   -> [w EXCEPT !.sfx = ""]
          [] OTHER         -> w

\* lower-cased tokens of a text: case, blanks and separators vanish
tokenize(text) ==
    {[w |-> text[i].w, sfx |-> text[i].sfx] : i \in {j \in DOMAIN text : text[j].w # 0}}

(***************************************************************************)
(* Program constants of the resolver.                                      *)
(***************************************************************************)
Q_DISAMBIGUATION == 4167410
LANGS == <<"en", "fr">>
MIN_LABEL_SIM == 70
MIN_TOTAL_SCORE == 30
MAX_LEVELS_LINEAGE == 5
SEARCH_LIMIT == 50
EXACT_SEARCH_LIMIT == 5
DISALLOWED_P31 == {13442814, 571, 1002697, 737498, 732577, 47461344}
PREFERRED_P31 ==
    {486972, 618123, 82794, 16889133, 151885, 11173, 11862829, 7187, 16521}

(***************************************************************************)
(* The knowledge base.  kb.kind[q] gives, for each candidate entity q, its *)
(* type (what its instance-of claims hold, or that the server does not     *)
(* return it) and its profile (label, aliases, description and what the    *)
(* similarity library answers for its label blob); kb.pattern says which   *)
(* searches find the candidates; kb.ent is the dictionary of the entity    *)
(* details the server returns.  Scores are in tenths.                      *)
(***************************************************************************)
\* bound: candidate entities of the knowledge base
NEnt == 2

QIDs == 1..NEnt

Types == {"none", "disamb", "blocked", "preferred", "missing"}

Profiles == {"exact", "plural", "alias", "other", "weak"}

Kinds == [type : Types, prof : Profiles]

\* the kinds candidates beyond the second range over
MoreKinds ==
    { [type |-> "none", prof |-> "exact"], [type |-> "blocked", prof |-> "exact"],
      [type |-> "disamb", prof |-> "other"] }

\* "crossed": the first candidate is found in French for a plural term only,
\* the others in English for a singular term only
SearchPatterns == {"all", "fr", "labelonly", "singular", "mixed", "crossed", "nothing"}

TypeP31(type) ==
    CASE type = "disamb"    -> <<Q_DISAMBIGUATION>>
      [] type = "blocked"   -> <<13442814>>
      [] type = "preferred" -> <<486972>>
      [] OTHER              -> <<>>

ProfLabel(prof) ==
    CASE prof = "exact"  -> Word(1, "")
      [] prof = "plural" -> Word(1, "s")
      [] prof = "alias"  -> Word(1, "")
      [] OTHER           -> Word(2, "")

ProfAliases(prof) == IF prof = "alias" THEN <<Word(2, "")>> ELSE <<>>

ProfDesc(prof) ==
    CASE prof = "exact" -> <<Word(3, "")>>
      [] prof = "alias" -> <<Word(1, ""), Word(4, "")>>
      [] prof = "other" -> <<Word(3, ""), Word(4, "")>>
      [] OTHER          -> <<>>

ProfFuzz(prof) ==
    CASE prof = "alias" -> 60
      [] prof = "other" -> MIN_LABEL_SIM
      [] OTHER          -> 40

\* the subclass-of claims of the server: candidates and the classes above them
ClassGraph ==
    [q \in QIDs |-> IF q = 1 THEN <<1001, 1002>> ELSE <<>>]
    @@ (1001 :> <<1003>> @@ 1002 :> <<>> @@ 1003 :> <<>>)

NoEntity == [id |-> 0, p31 |-> <<>>, p279 |-> <<>>, labels |-> EmptyDict, bnf |-> 0]

\* the entity details the server returns: candidates it knows, classes, types
ServerDict(kind) ==
    [q \in {c \in QIDs : kind[c].type # "missing"} |->
        [id |-> q, p31 |-> TypeP31(kind[q].type), p279 |-> ClassGraph[q],
         labels |-> [lg \in {"en"} |-> ProfLabel(kind[q].prof)],
         bnf |-> IF q = 1 THEN 11900000 + q ELSE 0]]
    @@ [q \in (DOMAIN ClassGraph \ QIDs) \cup {Q_DISAMBIGUATION, 13442814, 486972} |->
        [id |-> q, p31 |-> <<>>, p279 |-> IF q \in DOMAIN ClassGraph THEN ClassGraph[q] ELSE <<>>,
         labels |-> IF q = 1003 THEN EmptyDict ELSE [lg \in {"fr"} |-> Word(q, "")],
         bnf |-> 0]]

KB(kind, pattern) == [kind |-> kind, pattern |-> pattern, ent |-> ServerDict(kind)]

\* one search hit of the server for candidate q
Hit(k, q) ==
    [id |-> q, label |-> ProfLabel(k.kind[q].prof),
     description |-> ProfDesc(k.kind[q].prof), aliases |-> ProfAliases(k.kind[q].prof)]

\* whether the server's search for `term` in language lg returns candidate q
Visible(k, q, term, lg, mode) ==
    /\ CASE k.pattern = "all"       -> TRUE
         [] k.pattern = "fr"        -> lg = "fr"
         [] k.pattern = "labelonly" -> mode = "label"
         [] k.pattern = "singular"  -> term.sfx = ""
         [] k.pattern = "mixed"     -> (lg = "en") <=> (q = 1)
         [] k.pattern = "crossed"   -> IF q = 1 THEN lg = "fr" /\ term.sfx # ""
                                       ELSE lg = "en" /\ term.sfx = ""
         [] OTHER                   -> FALSE
    /\ mode = "label" => Lower(ProfLabel(k.kind[q].prof)) = Lower(term)

SearchHits(k, term, lg, mode, limit) ==
    LET ids == AscSeq({q \in QIDs : Visible(k, q, term, lg, mode)})
    IN  [i \in 1..Min(limit, Len(ids)) |-> Hit(k, ids[i])]

\* _get({"action": "wbsearchentities", "search": search, ...}).get("search", [])
wbsearchentities(k, search, lg, limit) ==
    SearchHits(k, normalize_kw(search), lg, "plain", limit)

\* _get({"action": "wbsearchentities", "search": f"label:{search}", ...})
wbsearch_label_only(k, search, lg, limit) ==
    SearchHits(k, normalize_kw(search), lg, "label", limit)

wbgetentities(k, ids) == WbGetEntities(k.ent, ids)

\* dict.get(key, {})
EntGet(ents, q) == IF q \in DOMAIN ents THEN ents[q] ELSE NoEntity

\* the label in the first language of `languages` the entity has, else None
FirstLabel(ent, languages) ==
    LET have == {i \in DOMAIN languages : languages[i] \in DOMAIN ent.labels}
    IN  IF have = {} THEN EmptyStr
        ELSE ent.labels[languages[CHOOSE i \in have : \A j \in have : i <= j]]

\* labels[q] = lab or q, for the ids the server returned
get_labels_for(k, qids) ==
    LET entities == wbgetentities(k, qids)
    IN  [q \in DOMAIN entities |->
            IF FirstLabel(entities[q], LANGS) # EmptyStr
            THEN FirstLabel(entities[q], LANGS) ELSE IdText(q)]

(***************************************************************************)
(* Scoring.                                                                *)
(***************************************************************************)
\* rapidfuzz.fuzz.token_sort_ratio(a, label + " " + aliases), a library outside
\* the repository: 100 for identical strings; for one-word strings that differ
\* only in the suffix or only in the case of the first letter the value the
\* library gives for such a pair ("banks"/"bank": 89, "Bank"/"bank": 75); for
\* anything else the value the knowledge base supplies with the candidate
token_sort_ratio(a, label, aliases, fuzz) ==
    CASE aliases # <<>>                       -> fuzz
      [] a = label                            -> 100
      [] a.w = label.w /\ a.cap = label.cap   -> 89
      [] a.w = label.w /\ a.sfx = label.sfx   -> 75
      [] OTHER                                -> fuzz

\* the overlap without the exclusion of the keyword's tokens
OverlapKeepingKeywordTokens(keyword, context, c) ==
    Cardinality(tokenize(context) \cap tokenize(<<c.label>> \o c.description \o c.aliases))

label_similarity(keyword, c) ==
    token_sort_ratio(normalize_kw(keyword), normalize_kw(c.label), c.aliases, c.fuzz)

\* tokens of context shared with label + description + aliases, the tokens of
\* the keyword left out
context_overlap(keyword, context, c) ==
    LET ctx_tokens == tokenize(context)
        all_candidate_tokens == tokenize(<<c.label>> \o c.description \o c.aliases)
        keyword_tokens == tokenize(<<normalize_kw(keyword)>>)
    IN  Cardinality(ctx_tokens \cap (all_candidate_tokens \ keyword_tokens))

IsExactCaseSensitive(keyword, label) ==
    \/ normalize_kw(label) = normalize_kw(keyword)
    \/ normalize_kw(label) = singularize_en(normalize_kw(keyword))

\* exact = (lbl == kw_norm) or (lbl == kw_sing), all three lower-cased
IsExact(keyword, label) ==
    LET lbl == Lower(normalize_kw(label))
        kw_norm == Lower(normalize_kw(keyword))
        kw_sing == Lower(singularize_en(kw_norm))
    IN  lbl = kw_norm \/ lbl = kw_sing

\* a score that gives the similarity half its weight
TotalScoreLightSimilarity(keyword, context, c, allow_exact_bonus) ==
    (IF allow_exact_bonus /\ IsExact(keyword, c.label) THEN 500 ELSE 0)
    + 10 * context_overlap(keyword, context, c)
    + 3 * label_similarity(keyword, c)

\* exact_bonus + context_overlap + 0.6 * label_similarity, in tenths
total_score(keyword, context, c, allow_exact_bonus) ==
    (IF allow_exact_bonus /\ IsExact(keyword, c.label) THEN 500 ELSE 0)
    + 10 * context_overlap(keyword, context, c)
    + 6 * label_similarity(keyword, c)

get_p31_ids(ent) == Range(ent.p31)

NeverBlocked(p31s) ==
    [block |-> FALSE, bonus |-> IF p31s \cap PREFERRED_P31 # {} THEN 300 ELSE 0]

\* (block, bonus), the bonus in tenths
type_bonus_or_block(p31s) ==
    IF p31s \cap DISALLOWED_P31 # {} THEN [block |-> TRUE, bonus |-> 0]
    ELSE [block |-> FALSE, bonus |-> IF p31s \cap PREFERRED_P31 # {} THEN 300 ELSE 0]

NeverDisambiguation(ent) == FALSE

is_disambiguation(ent) == \E i \in DOMAIN ent.p31 : ent.p31[i] = Q_DISAMBIGUATION

(***************************************************************************)
(* The resolver.                                                           *)
(***************************************************************************)
\* None
NoCand ==
    [id |-> 0, label |-> EmptyStr, description |-> <<>>, aliases |-> <<>>,
     fuzz |-> 0, language |-> "none", label_similarity |-> 0, match_score |-> 0,
     p31s |-> {}, stage |-> "none"]

\* a hit as the resolver keeps it
RawOf(k, hit, lg) ==
    [id |-> hit.id, label |-> hit.label, description |-> hit.description,
     aliases |-> hit.aliases, fuzz |-> ProfFuzz(k.kind[hit.id].prof), language |-> lg,
     label_similarity |-> 0, match_score |-> 0, p31s |-> {}, stage |-> "none"]

LangIndex(lg) == CHOOSE i \in DOMAIN LANGS : LANGS[i] = lg

\* for x in outer: for y in inner: the pairs in loop order
LoopPairs(outer, inner) ==
    [i \in 1..(Len(outer) * Len(inner)) |->
        <<outer[((i - 1) \div Len(inner)) + 1], inner[((i - 1) % Len(inner)) + 1]>>]

RECURSIVE AddHits(_, _, _, _)
\* for hit in hits: skip the ids already seen, append the others
AddHits(k, raw, hits, lg) ==
    IF hits = <<>> THEN raw
    ELSE AddHits(k,
                 IF Head(hits).id = 0 \/ \E i \in DOMAIN raw : raw[i].id = Head(hits).id
                 THEN raw ELSE Append(raw, RawOf(k, Head(hits), lg)),
                 Tail(hits), lg)

\* wbsearchentities(...) or wbsearch_label_only(...)
SearchOrLabel(k, term, lg, limit) ==
    LET hits == wbsearchentities(k, term, lg, limit)
    IN  IF hits # <<>> THEN hits ELSE wbsearch_label_only(k, term, lg, limit)

\* wbsearch_label_only(...) or wbsearchentities(...)
LabelOrSearch(k, term, lg, limit) ==
    LET hits == wbsearch_label_only(k, term, lg, limit)
    IN  IF hits # <<>> THEN hits ELSE wbsearchentities(k, term, lg, limit)

RECURSIVE BuildPool(_, _, _)
BuildPool(k, plan, raw) ==
    IF plan = <<>> THEN raw
    ELSE BuildPool(k, Tail(plan),
                   AddHits(k, raw, SearchOrLabel(k, Head(plan)[1], Head(plan)[2], SEARCH_LIMIT),
                           Head(plan)[2]))

Terms(keyword) ==
    IF singularize_en(keyword) # keyword THEN <<keyword, singularize_en(keyword)>>
    ELSE <<keyword>>

RECURSIVE Scored(_, _, _, _)
\* the unblocked candidates of raw, in order, with similarity, score and types
Scored(ents, keyword, context, raw) ==
    IF raw = <<>> THEN <<>>
    ELSE LET c == Head(raw)
             p31s == get_p31_ids(EntGet(ents, c.id))
             tb == type_bonus_or_block(p31s)
         IN (IF tb.block THEN <<>>
             ELSE << [c EXCEPT !.label_similarity = label_similarity(keyword, c),
                               !.match_score = total_score(keyword, context, c, TRUE) + tb.bonus,
                               !.p31s = p31s] >>)
            \o Scored(ents, keyword, context, Tail(raw))

\* (match_score, label_similarity, -LANGS.index(language)), compared as tuples
KeyLess(a, b) ==
    \/ a.match_score < b.match_score
    \/ a.match_score = b.match_score /\ a.label_similarity < b.label_similarity
    \/ /\ a.match_score = b.match_score
       /\ a.label_similarity = b.label_similarity
       /\ LangIndex(a.language) > LangIndex(b.language)

RECURSIVE InsertBeforeEquals(_, _)
\* an insertion that puts c in front of the elements it ties with
InsertBeforeEquals(sorted, c) ==
    IF sorted = <<>> THEN <<c>>
    ELSE IF ~KeyLess(c, Head(sorted)) THEN <<c>> \o sorted
    ELSE <<Head(sorted)>> \o InsertBeforeEquals(Tail(sorted), c)

RECURSIVE InsertSorted(_, _)
\* c goes after every element that does not sort below it (a stable sort)
InsertSorted(sorted, c) ==
    IF sorted = <<>> THEN <<c>>
    ELSE IF KeyLess(Head(sorted), c) THEN <<c>> \o sorted
    ELSE <<Head(sorted)>> \o InsertSorted(Tail(sorted), c)

RECURSIVE SortCandidates(_, _)
\* candidates.sort(key=..., reverse=True)
SortCandidates(sorted, rest) ==
    IF rest = <<>> THEN sorted
    ELSE SortCandidates(InsertSorted(sorted, Head(rest)), Tail(rest))

RECURSIVE FirstLabelMatch(_, _, _)
\* a loop that stops at the first hit with a matching label, blocked or not
FirstLabelMatch(k, targets, tagged) ==
    IF tagged = <<>> THEN NoCand
    ELSE LET h == Head(tagged)[1]
             lg == Head(tagged)[2]
             p31s == get_p31_ids(EntGet(wbgetentities(k, <<h.id>>), h.id))
             tb == type_bonus_or_block(p31s)
         IN IF Lower(normalize_kw(h.label)) \in targets
            THEN (IF tb.block THEN NoCand
                  ELSE [RawOf(k, h, lg) EXCEPT !.label_similarity = 100,
                                               !.match_score = 500 + tb.bonus,
                                               !.p31s = p31s, !.stage = "exact_label"])
            ELSE FirstLabelMatch(k, targets, Tail(tagged))

RECURSIVE FirstExact(_, _, _)
\* the loops of pick_exact_label_only over the hits of every language
FirstExact(k, targets, tagged) ==
    IF tagged = <<>> THEN NoCand
    ELSE LET h == Head(tagged)[1]
             lg == Head(tagged)[2]
             p31s == get_p31_ids(EntGet(wbgetentities(k, <<h.id>>), h.id))
             tb == type_bonus_or_block(p31s)
         IN IF Lower(normalize_kw(h.label)) \in targets /\ ~tb.block
            THEN [RawOf(k, h, lg) EXCEPT !.label_similarity = 100,
                                         !.match_score = 500 + tb.bonus,
                                         !.p31s = p31s, !.stage = "exact_label"]
            ELSE FirstExact(k, targets, Tail(tagged))

RECURSIVE TaggedHits(_, _, _)
TaggedHits(k, kw_sing, langs) ==
    IF langs = <<>> THEN <<>>
    ELSE LET hits == LabelOrSearch(k, kw_sing, Head(langs), EXACT_SEARCH_LIMIT)
         IN [i \in DOMAIN hits |-> <<hits[i], Head(langs)>>]
            \o TaggedHits(k, kw_sing, Tail(langs))

pick_exact_label_only(k, keyword) ==
    LET kw_norm == Lower(normalize_kw(keyword))
        kw_sing == Lower(singularize_en(kw_norm))
    IN  FirstExact(k, {kw_norm, kw_sing}, TaggedHits(k, kw_sing, LANGS))

GatesOpen(top) == TRUE

\* top["label_similarity"] >= MIN_LABEL_SIM and top["match_score"] >= MIN_TOTAL_SCORE
PassesGates(top) ==
    /\ top.label_similarity >= MIN_LABEL_SIM
    /\ top.match_score >= 10 * MIN_TOTAL_SCORE

\* raw: the hits of every (term, language) search, merged by id, first seen first
ContextPool(k, keyword) == BuildPool(k, LoopPairs(Terms(keyword), LANGS), <<>>)

\* candidates after candidates.sort(...): the unblocked hits of the pool, ranked
ContextCandidates(k, keyword, context) ==
    LET raw == ContextPool(k, keyword)
        ents == wbgetentities(k, [i \in DOMAIN raw |-> raw[i].id])
    IN  SortCandidates(<<>>, Scored(ents, keyword, context, raw))

\* the first survivor of the ranking that passes both thresholds
FirstPassingSurvivor(candidates) ==
    LET ok == {i \in DOMAIN candidates : PassesGates(candidates[i])}
    IN  IF ok = {} THEN NoCand
        ELSE [candidates[CHOOSE i \in ok : \A j \in ok : i <= j] EXCEPT !.stage = "context"]

\* top = candidates[0]; returned with __stage "context" if it passes, else
\* nothing is returned by the context stage
ContextChoice(candidates) ==
    IF candidates # <<>> /\ PassesGates(Head(candidates))
    THEN [Head(candidates) EXCEPT !.stage = "context"]
    ELSE NoCand

pick_with_context_then_exact(k, keyword0, context) ==
    LET keyword == normalize_kw(keyword0)
        choice == ContextChoice(ContextCandidates(k, keyword, context))
    IN  IF choice # NoCand THEN choice ELSE pick_exact_label_only(k, keyword)

(***************************************************************************)
(* map_keywords(records, neo4j_conn)                                       *)
(***************************************************************************)
\* bound: keywords in one batch of records
MaxKw == 3

\* the subclass-of answers expand_p279_paths gets from the server
P279Graph(k) == [q \in DOMAIN k.ent |-> k.ent[q].p279]

\* the label in the first of `languages`, else any label, else ""
extract_label(ent, languages) ==
    IF FirstLabel(ent, languages) # EmptyStr THEN FirstLabel(ent, languages)
    ELSE IF DOMAIN ent.labels # {} THEN ent.labels[CHOOSE lg \in DOMAIN ent.labels : TRUE]
    ELSE EmptyStr

\* d.get(q, q) on a dictionary of labels
LabelGet(d, q) == IF q \in DOMAIN d THEN d[q] ELSE IdText(q)

Op(op, a, b, label) == [op |-> op, a |-> a, b |-> b, label |-> label]

\* ingest_p31_types: one upsert per type id
P31Ops(qid, p31_seq, p31_labels) ==
    [i \in DOMAIN p31_seq |-> Op("instance_of", qid, p31_seq[i], LabelGet(p31_labels, p31_seq[i]))]

RECURSIVE PathOps(_, _, _)
\* the inner loop of ingest_p279_hierarchy over one path
PathOps(child, path, labels_map) ==
    IF path = <<>> THEN <<>>
    ELSE IF Head(path) = child THEN PathOps(child, Tail(path), labels_map)
    ELSE <<Op("subclass_of", child, Head(path), LabelGet(labels_map, Head(path)))>>
         \o PathOps(Head(path), Tail(path), labels_map)

RECURSIVE AllPathOps(_, _, _)
AllPathOps(qid, paths, labels_map) ==
    IF paths = <<>> THEN <<>>
    ELSE PathOps(qid, Head(paths), labels_map) \o AllPathOps(qid, Tail(paths), labels_map)

\* ingest_p279_hierarchy: the entity node, then every edge of every path
HierarchyOps(qid, label, paths, labels_map) ==
    <<Op("item", qid, 0, label)>> \o AllPathOps(qid, paths, labels_map)

(***************************************************************************)
(* The label lookups map_keywords makes for the hierarchy of one resolved  *)
(* entity, in Neo4j-wikidata_v2.py and in Neo4j-wikidata.py.  A lookup is  *)
(* one call of get_labels_for, recorded as the set of ids it asks for.     *)
(***************************************************************************)
\* v2: all_p279_qids collected over the paths, then one get_labels_for
HierarchyLookups(qid_paths) ==
    << UNION {Range(qid_paths[i]) : i \in DOMAIN qid_paths} >>

\* v1: for qpath in qid_paths: labs = get_labels_for(qpath, LANGS)
HierarchyLookupsV1(qid_paths) ==
    [i \in DOMAIN qid_paths |-> Range(qid_paths[i])]

\* rec.get("keyword_s") or the pieces of rec["keywords_joined"] split at ';' ','
\* stripped, the empty ones dropped
Keywords(rec) ==
    IF rec.keyword_s # <<>> THEN rec.keyword_s
    ELSE LET pieces == rec.keywords_joined
             keep == AscSeq({i \in DOMAIN pieces : pieces[i].w # 0})
         IN [i \in DOMAIN keep |-> [pieces[keep[i]] EXCEPT !.pad = FALSE]]

RowPathsFirstOnly(qid, p279_paths_labels) ==
    IF qid # 0 /\ p279_paths_labels # <<>> THEN <<Head(p279_paths_labels)>>
    ELSE << <<>> >>

\* paths = p279_paths_labels or [""] if qid else [""]
RowPaths(qid, p279_paths_labels) ==
    IF qid # 0 THEN (IF p279_paths_labels # <<>> THEN p279_paths_labels ELSE << <<>> >>)
    ELSE << <<>> >>

\* the inner loop after the resolver has returned c, every client call
\* returning: the rows and the graph upserts of the pair
Emit(k, rec, kw, c) ==
    LET ent == IF c.id # 0 THEN EntGet(wbgetentities(k, <<c.id>>), c.id)
               ELSE NoEntity
        disambig == ent # NoEntity /\ is_disambiguation(ent)
        resolved == c.id # 0 /\ ent # NoEntity /\ ~disambig
        qid == IF resolved THEN c.id ELSE 0
        label == IF resolved THEN extract_label(ent, LANGS) ELSE EmptyStr
        p31s_out == IF resolved THEN get_p31_ids(ent) ELSE {}
        p31_labels == IF p31s_out # {} THEN get_labels_for(k, AscSeq(p31s_out))
                      ELSE EmptyDict
        direct_p279 == IF resolved THEN ent.p279 ELSE <<>>
        qid_paths == IF direct_p279 # <<>>
                     THEN expand_p279_paths(P279Graph(k), direct_p279, MAX_LEVELS_LINEAGE)
                     ELSE <<>>
        p279_labels_map == get_labels_for(k, AscSeq(HierarchyLookups(qid_paths)[1]))
        p279_paths_labels ==
            [i \in DOMAIN qid_paths |->
                [j \in DOMAIN qid_paths[i] |-> LabelGet(p279_labels_map, qid_paths[i][j])]]
        paths == RowPaths(qid, p279_paths_labels)
        p31_ops == IF resolved THEN P31Ops(qid, AscSeq(p31s_out), p31_labels) ELSE <<>>
    IN  [rows |->
            [i \in DOMAIN paths |->
                [docid |-> rec.docid, title |-> rec.title, keyword |-> kw,
                 wikidata_label |-> label, wikidata_qid |-> qid,
                 bnf_id |-> IF resolved THEN ent.bnf ELSE 0,
                 p279_path |-> paths[i],
                 match_stage |-> IF resolved THEN c.stage ELSE "none",
                 is_disambiguation |-> c.id # 0 /\ disambig,
                 label_similarity |-> IF resolved THEN c.label_similarity ELSE 0,
                 match_score |-> IF resolved THEN c.match_score ELSE 0,
                 p31_types |-> p31s_out,
                 p31_label |-> [j \in DOMAIN AscSeq(p31s_out) |->
                                   LabelGet(p31_labels, AscSeq(p31s_out)[j])]]],
         early_ops |-> p31_ops,
         lineage |-> direct_p279 # <<>>,
         ops |-> IF ~resolved THEN <<>>
                 ELSE p31_ops
                      \o (IF direct_p279 # <<>>
                          THEN HierarchyOps(qid, label, qid_paths, p279_labels_map)
                          ELSE <<>>)
                      \o <<Op("document_map", rec.docid, qid, kw)>>]

AtKeyword ==
    /\ pc = "running"
    /\ ri <= Len(records)
    /\ ki <= Len(Keywords(records[ri]))

CurPair == <<records[ri].docid, Keywords(records[ri])[ki]>>

NeverInSeen(pair, seen) == FALSE

\* (docid, kw) in seen_pairs
InSeen(pair, seen) == pair \in seen

\* for rec in records: the inner loop of a record is over, the next record
NextRecord ==
    /\ pc = "running"
    /\ ri <= Len(records)
    /\ ki > Len(Keywords(records[ri]))
    /\ ri' = ri + 1
    /\ ki' = 1
    /\ UNCHANGED <<pc, kb, records, seen_pairs, rows, cand, result, picks, writes, failed>>

\* if (docid, kw) in seen_pairs: continue
SkipSeenPair ==
    /\ AtKeyword
    /\ InSeen(CurPair, seen_pairs)
    /\ ki' = ki + 1
    /\ UNCHANGED <<pc, kb, records, ri, seen_pairs, rows, cand, result, picks, writes, failed>>

\* a resolver that remembers the entities it returned and never returns one
\* of them again
PickRememberingChosen ==
    /\ AtKeyword
    /\ ~InSeen(CurPair, seen_pairs)
    /\ seen_pairs' = seen_pairs \cup {CurPair}
    /\ cand' = LET c == pick_with_context_then_exact(kb, CurPair[2], records[ri].ctx)
               IN  IF \E i \in DOMAIN picks : picks[i].cand = c THEN NoCand ELSE c
    /\ picks' = Append(picks, [docid |-> CurPair[1], kw |-> CurPair[2], cand |-> cand'])
    /\ pc' = "picked"
    /\ UNCHANGED <<kb, records, ri, ki, rows, result, writes, failed>>

\* seen_pairs.add((docid, kw)) ... cand = pick_with_context_then_exact(kw, context),
\* every client call of the resolver returning
PickCandidate ==
    /\ AtKeyword
    /\ ~InSeen(CurPair, seen_pairs)
    /\ seen_pairs' = seen_pairs \cup {CurPair}
    /\ cand' = pick_with_context_then_exact(kb, CurPair[2], records[ri].ctx)
    /\ picks' = Append(picks, [docid |-> CurPair[1], kw |-> CurPair[2], cand |-> cand'])
    /\ pc' = "picked"
    /\ UNCHANGED <<kb, records, ri, ki, rows, result, writes, failed>>

\* the survivor ranked next after a chosen disambiguation page, if one passes
\* both thresholds and is no disambiguation page itself; else the chosen one
NextRanked(k, kw, context, c) ==
    LET cs == ContextCandidates(k, normalize_kw(kw), context)
        ok == {i \in DOMAIN cs : /\ cs[i].id # c.id
                                 /\ PassesGates(cs[i])
                                 /\ ~is_disambiguation(EntGet(k.ent, cs[i].id))}
    IN  IF c.id # 0 /\ is_disambiguation(EntGet(k.ent, c.id)) /\ ok # {}
        THEN [cs[CHOOSE i \in ok : \A j \in ok : i <= j] EXCEPT !.stage = "context"]
        ELSE c

\* a pass that falls back to the next-ranked survivor
EmitRowsWithFallback ==
    /\ pc = "picked"
    /\ LET out == Emit(kb, records[ri], CurPair[2],
                       NextRanked(kb, CurPair[2], records[ri].ctx, cand))
       IN /\ rows' = rows \o out.rows
          /\ writes' = writes \o out.ops
    /\ cand' = EmptyDict
    /\ pc' = "running"
    /\ ki' = ki + 1
    /\ UNCHANGED <<kb, records, ri, seen_pairs, result, picks, failed>>

\* a pass that writes the document-keyword-item upsert whatever the outcome
EmitRowsAlwaysMapped ==
    /\ pc = "picked"
    /\ LET out == Emit(kb, records[ri], CurPair[2], cand)
       IN /\ rows' = rows \o out.rows
          /\ writes' = writes \o out.ops
                        \o (IF out.ops = <<>>
                            THEN <<Op("document_map", records[ri].docid, 0, CurPair[2])>>
                            ELSE <<>>)
    /\ cand' = EmptyDict
    /\ pc' = "running"
    /\ ki' = ki + 1
    /\ UNCHANGED <<kb, records, ri, seen_pairs, result, picks, failed>>

\* the rest of the pass: entity fetch, disambiguation check, types, hierarchy,
\* graph upserts and rows.append, every client call returning
EmitRows ==
    /\ pc = "picked"
    /\ LET out == Emit(kb, records[ri], CurPair[2], cand)
       IN /\ rows' = rows \o out.rows
          /\ writes' = writes \o out.ops
    /\ cand' = EmptyDict
    /\ pc' = "running"
    /\ ki' = ki + 1
    /\ UNCHANGED <<kb, records, ri, seen_pairs, result, picks, failed>>

\* a client call exhausts its retries during the pass and _get raises; no
\* try/except of map_keywords or of main catches it.  The call is in the resolver
\* ("pick"), in the entity fetch or the type-label lookup ("fetch", before any
\* upsert), or in the hierarchy expansion or its label lookup ("lineage",
\* after ingest_p31_types)
ClientExhausted(stage) ==
    /\ CASE stage = "pick"  -> AtKeyword /\ ~InSeen(CurPair, seen_pairs) /\ writes' = writes
         [] stage = "fetch" -> pc = "picked" /\ cand.id # 0 /\ writes' = writes
         [] OTHER           ->
                /\ pc = "picked"
                /\ LET out == Emit(kb, records[ri], CurPair[2], cand)
                   IN  out.lineage /\ writes' = writes \o out.early_ops
    /\ seen_pairs' = seen_pairs \cup {CurPair}
    /\ failed' = failed \cup {CurPair}
    /\ pc' = "raised"
    /\ cand' = EmptyDict
    /\ UNCHANGED <<kb, records, ri, ki, rows, result, picks>>

\* return rows
ReturnRows ==
    /\ pc = "running"
    /\ ri > Len(records)
    /\ pc' = "returned"
    /\ result' = rows
    /\ UNCHANGED <<kb, records, ri, ki, seen_pairs, rows, cand, picks, writes, failed>>

NextRun ==
    \/ NextRecord /\ UNCHANGED <<clientVars, batchVars, expandVars, callVars, poolVars>>
    \/ SkipSeenPair /\ UNCHANGED <<clientVars, batchVars, expandVars, callVars, poolVars>>
    \/ PickCandidate /\ UNCHANGED <<clientVars, batchVars, expandVars, callVars, poolVars>>
    \/ EmitRows /\ UNCHANGED <<clientVars, batchVars, expandVars, callVars, poolVars>>
    \/ \E stage \in {"pick", "fetch", "lineage"} :
          ClientExhausted(stage) /\ UNCHANGED <<clientVars, batchVars, expandVars, callVars, poolVars>>
    \/ ReturnRows /\ UNCHANGED <<clientVars, batchVars, expandVars, callVars, poolVars>>

\* the state at the first line of map_keywords
InitRun(kbs, batches) ==
    /\ ClientIdle
    /\ CallIdle
    /\ PoolIdle
    /\ BatchIdle
    /\ ExpandIdle
    /\ pc = "running"
    /\ kb \in kbs
    /\ records \in batches
    /\ ri = 1
    /\ ki = 1
    /\ seen_pairs = {}
    /\ rows = <<>>
    /\ cand = EmptyDict
    /\ result = <<>>
    /\ picks = <<>>
    /\ writes = <<>>
    /\ failed = {}

Rec(docid, kws, ctx) ==
    [docid |-> docid, title |-> docid, ctx |-> ctx, keyword_s |-> kws,
     keywords_joined |-> <<>>]

\* "bank river money"
SomeContext == <<Word(1, ""), Word(3, ""), Word(4, "")>>

\* ---- the resolver over every knowledge base, one keyword ----------------
AllKBs ==
    {KB(f, p) : f \in {g \in [QIDs -> Kinds] : \A q \in QIDs : q > 2 => g[q] \in MoreKinds},
                p \in SearchPatterns}

\* "bank", "banks"
ResolveKeywords == {Word(1, ""), Word(1, "s")}

\* "Bank", "Banks"
CapitalKeywords == {[kw EXCEPT !.cap = TRUE] : kw \in ResolveKeywords}

\* one record: one keyword with and without context, a repeated keyword, and
\* "bank" followed by "Banks"
ResolveBatches ==
    {<<Rec(1, <<kw>>, ctx)>> : kw \in ResolveKeywords, ctx \in {<<>>, SomeContext}}
    \cup {<<Rec(1, <<kw>>, SomeContext)>> : kw \in CapitalKeywords}
    \cup {<<Rec(1, <<Word(1, ""), Word(1, "")>>, SomeContext)>>}
    \cup {<<Rec(1, <<Word(1, ""), [Word(1, "s") EXCEPT !.cap = TRUE]>>, SomeContext)>>}

InitResolve == InitRun(AllKBs, ResolveBatches)

SpecResolve == InitResolve /\ [][NextRun]_vars

\* ---- the pipeline over every batch, a few knowledge bases ---------------
PipelineKinds ==
    { [type |-> "none", prof |-> "exact"], [type |-> "disamb", prof |-> "exact"],
      [type |-> "preferred", prof |-> "other"] }

PipelineKBs == {KB(f, "all") : f \in [QIDs -> PipelineKinds]}

\* "bank", "bank ;"
PipelineKeywords == {Word(1, ""), [Word(1, "") EXCEPT !.pad = TRUE]}

RECURSIVE SeqsUpTo(_, _)
\* the sequences over S of length at most n
SeqsUpTo(S, n) ==
    IF n = 0 THEN {<<>>}
    ELSE SeqsUpTo(S, n - 1) \cup {Append(t, x) : t \in SeqsUpTo(S, n - 1), x \in S}

\* one or two records, documents 1 and 2, at most MaxKw keywords in all
PipelineBatches ==
    LET kwlists == SeqsUpTo(PipelineKeywords, MaxKw)
        recs == {Rec(d, kws, SomeContext) : d \in {1, 2}, kws \in kwlists}
    IN  {<<r>> : r \in recs}
        \cup {<<r1, r2>> : r1 \in recs, r2 \in {r \in recs : Len(r.keyword_s) <= MaxKw - 1}}

Init ==
    InitRun(PipelineKBs,
            {b \in PipelineBatches :
                Len(b[1].keyword_s) + (IF Len(b) > 1 THEN Len(b[2].keyword_s) ELSE 0) <= MaxKw})

Spec == Init /\ [][NextRun]_vars

(***************************************************************************)
(* One invocation of the resolver, stage by stage.  fcall is the           *)
(* invocation (knowledge base, keyword, context), fpc the stage, fret the  *)
(* pool, the ranked survivors, the stages entered and the result.          *)
(***************************************************************************)
StageKeywords == ResolveKeywords \cup CapitalKeywords

InitStages ==
    /\ ClientIdle
    /\ BatchIdle
    /\ ExpandIdle
    /\ RunIdle
    /\ PoolIdle
    /\ fpc = "NotStarted"
    /\ fcall \in [k : AllKBs, keyword : StageKeywords, context : {<<>>, SomeContext}]
    /\ fret = EmptyDict

\* the searches, the entity fetch, the scoring and the sort
ContextSearch ==
    /\ fpc = "NotStarted"
    /\ fret' = [raw |-> ContextPool(fcall.k, normalize_kw(fcall.keyword)),
                candidates |-> ContextCandidates(fcall.k, normalize_kw(fcall.keyword),
                                                 fcall.context),
                trail |-> <<"ContextSearch">>,
                result |-> NoCand]
    /\ fpc' = "ContextSearch"
    /\ UNCHANGED fcall

\* a stage that goes on to the exact-label search after accepting
ContextAcceptedThenExact ==
    /\ fpc = "ContextSearch"
    /\ ContextChoice(fret.candidates) # NoCand
    /\ fret' = [fret EXCEPT !.result = ContextChoice(fret.candidates),
                            !.trail = Append(@, "ExactLabelSearch")]
    /\ fpc' = "ExactLabelSearch"
    /\ UNCHANGED fcall

\* top["__stage"] = "context"; return top
ContextAccepted ==
    /\ fpc = "ContextSearch"
    /\ ContextChoice(fret.candidates) # NoCand
    /\ fret' = [fret EXCEPT !.result = ContextChoice(fret.candidates),
                            !.trail = Append(@, "Terminal")]
    /\ fpc' = "Terminal"
    /\ UNCHANGED fcall

\* no pool, no survivor, or the top survivor fails a threshold: fall through
\* to return pick_exact_label_only(keyword)
ContextRejected ==
    /\ fpc = "ContextSearch"
    /\ ContextChoice(fret.candidates) = NoCand
    /\ fret' = [fret EXCEPT !.trail = Append(@, "ExactLabelSearch")]
    /\ fpc' = "ExactLabelSearch"
    /\ UNCHANGED fcall

\* pick_exact_label_only returns a hit or None
ExactLabelSearch ==
    /\ fpc = "ExactLabelSearch"
    /\ fret' = [fret EXCEPT !.result = pick_exact_label_only(fcall.k, normalize_kw(fcall.keyword)),
                            !.trail = Append(@, "Terminal")]
    /\ fpc' = "Terminal"
    /\ UNCHANGED fcall

NextStages ==
    \/ ContextSearch /\ UNCHANGED <<clientVars, batchVars, expandVars, runVars, poolVars>>
    \/ ContextAccepted /\ UNCHANGED <<clientVars, batchVars, expandVars, runVars, poolVars>>
    \/ ContextRejected /\ UNCHANGED <<clientVars, batchVars, expandVars, runVars, poolVars>>
    \/ ExactLabelSearch /\ UNCHANGED <<clientVars, batchVars, expandVars, runVars, poolVars>>

SpecStages == InitStages /\ [][NextStages]_vars

\* ---- the label lookups for the hierarchy of one resolved entity -----------
InitLabels ==
    /\ ClientIdle
    /\ BatchIdle
    /\ ExpandIdle
    /\ RunIdle
    /\ PoolIdle
    /\ fpc = "called"
    /\ fcall \in [graph : LevelGraphs, direct_p279 : StartChoices,
                   source : {"Neo4j-wikidata_v2.py", "Neo4j-wikidata.py"}]
    /\ fret = EmptyDict

\* the `if direct_p279:` block of Neo4j-wikidata_v2.py
LineageLabels ==
    /\ fpc = "called"
    /\ fcall.source = "Neo4j-wikidata_v2.py"
    /\ LET qid_paths == expand_p279_paths(fcall.graph, fcall.direct_p279, MAX_LEVELS_LINEAGE)
       IN  fret' = [qid_paths |-> qid_paths, lookups |-> HierarchyLookups(qid_paths)]
    /\ fpc' = "returned"
    /\ UNCHANGED fcall

\* the `if direct_p279:` block of Neo4j-wikidata.py
LineageLabelsV1 ==
    /\ fpc = "called"
    /\ fcall.source = "Neo4j-wikidata.py"
    /\ LET qid_paths == expand_p279_paths(fcall.graph, fcall.direct_p279, MAX_LEVELS_LINEAGE)
       IN  fret' = [qid_paths |-> qid_paths, lookups |-> HierarchyLookupsV1(qid_paths)]
    /\ fpc' = "returned"
    /\ UNCHANGED fcall

NextLabels ==
    \/ LineageLabels /\ UNCHANGED <<clientVars, batchVars, expandVars, runVars, poolVars>>
    \/ LineageLabelsV1 /\ UNCHANGED <<clientVars, batchVars, expandVars, runVars, poolVars>>

SpecLabels == InitLabels /\ [][NextLabels]_vars

(***************************************************************************)
(* The scoring functions applied to one (keyword, context, candidate).     *)
(***************************************************************************)
\* "bank", "banks", "Bank", "bank ;", "river"
ScoreKeywords ==
    ResolveKeywords \cup {[Word(1, "") EXCEPT !.cap = TRUE], [Word(1, "") EXCEPT !.pad = TRUE],
                          Word(3, "")}

\* "", "bank river money", "Bank river"
ScoreContexts == {<<>>, SomeContext, <<[Word(1, "") EXCEPT !.cap = TRUE], Word(3, "")>>}

\* search hits: label, description, aliases, and what the similarity library
\* answers for the label blob when it is not a near copy of the keyword
ScoreCandidates ==
    [label : {Word(1, ""), [Word(1, "") EXCEPT !.cap = TRUE], Word(1, "s"), Word(2, "")},
     description : {<<>>, <<Word(3, "")>>, <<Word(1, ""), Word(4, "")>>},
     aliases : {<<>>, <<Word(2, "")>>},
     fuzz : {40, 75}]

InitScore ==
    /\ ClientIdle
    /\ BatchIdle
    /\ ExpandIdle
    /\ RunIdle
    /\ PoolIdle
    /\ fpc = "called"
    /\ fcall \in [keyword : ScoreKeywords, context : ScoreContexts, c : ScoreCandidates]
    /\ fret = EmptyDict

\* the three scoring functions on the arguments of the call
ScoreCall ==
    /\ fpc = "called"
    /\ fret' = [label_similarity |-> label_similarity(fcall.keyword, fcall.c),
                context_overlap |-> context_overlap(fcall.keyword, fcall.context, fcall.c),
                total_score |-> total_score(fcall.keyword, fcall.context, fcall.c, TRUE)]
    /\ fpc' = "returned"
    /\ UNCHANGED fcall

NextScore == ScoreCall /\ UNCHANGED <<clientVars, batchVars, expandVars, runVars, poolVars>>

SpecScore == InitScore /\ [][NextScore]_vars

(***************************************************************************)
(* The graph upserts.  A graph is a list of nodes [kind, key, label] and a *)
(* list of edges [type, src, dst] between node positions; every Cypher     *)
(* statement of the three ingest functions is a sequence of MERGE and SET  *)
(* clauses on it.                                                          *)
(***************************************************************************)
EmptyGraph == [nodes |-> <<>>, edges |-> <<>>]

\* the nodes a pattern (n:kind {key}) matches
Match(g, kind, key) ==
    {i \in DOMAIN g.nodes : g.nodes[i].kind = kind /\ g.nodes[i].key = key}

\* CREATE (n:kind {key})
CreateNode(g, kind, key) ==
    [g EXCEPT !.nodes = Append(@, [kind |-> kind, key |-> key, label |-> EmptyStr])]

\* MERGE (n:kind {key}): the node is created only when nothing matches
MergeNode(g, kind, key) ==
    IF Match(g, kind, key) # {} THEN g ELSE CreateNode(g, kind, key)

\* SET n.label = label on every node the pattern matches
SetLabel(g, kind, key, label) ==
    [g EXCEPT !.nodes = [i \in DOMAIN @ |->
                            IF i \in Match(g, kind, key) THEN [@[i] EXCEPT !.label = label]
                            ELSE @[i]]]

\* MERGE (a)-[:type]->(b) for bound a and b: an edge is created for every pair
\* of matched nodes that has none
MergeEdge(g, type, srcs, dsts) ==
    LET code(i, j) == i * (Len(g.nodes) + 1) + j
        have == {<<g.edges[e].src, g.edges[e].dst>> :
                    e \in {x \in DOMAIN g.edges : g.edges[x].type = type}}
        new == AscSeq({code(i, j) : <<i, j>> \in (srcs \X dsts) \ have})
    IN  [g EXCEPT !.edges =
            @ \o [n \in DOMAIN new |->
                    [type |-> type, src |-> new[n] \div (Len(g.nodes) + 1),
                     dst |-> new[n] % (Len(g.nodes) + 1)]]]

\* one run_query of the ingest functions
ApplyOp(g, o) ==
    CASE o.op = "item" ->
            SetLabel(MergeNode(g, "Item", o.a), "Item", o.a, o.label)
      [] o.op = "subclass_of" ->
            LET g1 == MergeNode(MergeNode(g, "Item", o.a), "Item", o.b)
                g2 == SetLabel(g1, "Item", o.b, o.label)
            IN  MergeEdge(g2, "SUBCLASS_OF", Match(g2, "Item", o.a), Match(g2, "Item", o.b))
      [] o.op = "instance_of" ->
            LET g1 == MergeNode(MergeNode(g, "Item", o.a), "Class", o.b)
                g2 == SetLabel(g1, "Class", o.b, o.label)
            IN  MergeEdge(g2, "INSTANCE_OF", Match(g2, "Item", o.a), Match(g2, "Class", o.b))
      [] OTHER ->
            LET g1 == MergeNode(MergeNode(MergeNode(g, "Document", o.a), "Keyword", o.label),
                                "Item", o.b)
                g2 == MergeEdge(g1, "CONTAINS_KEYWORD",
                                Match(g1, "Document", o.a), Match(g1, "Keyword", o.label))
            IN  MergeEdge(g2, "MAPS_TO", Match(g2, "Keyword", o.label), Match(g2, "Item", o.b))

RECURSIVE ApplyOps(_, _)
ApplyOps(g, ops) == IF ops = <<>> THEN g ELSE ApplyOps(ApplyOp(g, Head(ops)), Tail(ops))

ingest_p279_hierarchy(g, entity_qid, entity_label, qid_paths, labels_map) ==
    ApplyOps(g, HierarchyOps(entity_qid, entity_label, qid_paths, labels_map))

ingest_document_map(g, docid, keyword, qid) ==
    ApplyOps(g, <<Op("document_map", docid, qid, keyword)>>)

ingest_p31_types(g, entity_qid, p31_ids, p31_labels) ==
    ApplyOps(g, P31Ops(entity_qid, AscSeq(p31_ids), p31_labels))

\* the ingest function of a call applied to g
Ingest(g, c) ==
    CASE c.fn = "ingest_p279_hierarchy" ->
            ingest_p279_hierarchy(g, c.qid, c.label, c.paths, c.labels)
      [] c.fn = "ingest_document_map" -> ingest_document_map(g, c.docid, c.keyword, c.qid)
      [] OTHER -> ingest_p31_types(g, c.qid, c.p31_ids, c.labels)

\* labels of the classes 1001 and 1002 (and, last, of the entity 1 itself)
SomeLabels == 1001 :> Word(5, "") @@ 1002 :> Word(6, "")

\* calls of ingest_p279_hierarchy: branching paths, a repeated path, a path
\* that comes back to the entity, a path that starts at the entity, no path
HierarchyCalls ==
    {[fn |-> "ingest_p279_hierarchy", qid |-> 1, label |-> Word(1, ""), paths |-> ps, labels |-> lm] :
        ps \in { << <<1001, 1003>>, <<1002>> >>, << <<1001>>, <<1001>> >>,
                 << <<1001, 1, 1001>> >>, << <<1, 1001>> >>, <<>> },
        lm \in {SomeLabels, SomeLabels @@ 1 :> Word(7, "")}}

DocumentCalls ==
    {[fn |-> "ingest_document_map", docid |-> d, keyword |-> kw, qid |-> q] :
        d \in {1, 2}, kw \in ResolveKeywords, q \in {1, 1001}}

TypeCalls ==
    {[fn |-> "ingest_p31_types", qid |-> 1, p31_ids |-> ts, labels |-> lm] :
        ts \in {{}, {486972}, {486972, 1001}}, lm \in {EmptyDict, SomeLabels}}

GraphCalls == HierarchyCalls \cup DocumentCalls \cup TypeCalls

\* the graphs the calls start from: the empty graph and what one or two
\* earlier calls leave
StartGraphs ==
    {EmptyGraph} \cup {Ingest(EmptyGraph, c) : c \in GraphCalls}
    \cup {Ingest(Ingest(EmptyGraph, c), d) : c \in HierarchyCalls, d \in TypeCalls}

InitGraph ==
    /\ ClientIdle
    /\ BatchIdle
    /\ ExpandIdle
    /\ RunIdle
    /\ PoolIdle
    /\ fpc = "called"
    /\ fcall \in [graph : StartGraphs, call : GraphCalls]
    /\ fret = EmptyDict

\* the call on the graph
IngestOnce ==
    /\ fpc = "called"
    /\ fret' = [once |-> Ingest(fcall.graph, fcall.call)]
    /\ fpc' = "once"
    /\ UNCHANGED fcall

\* the same call again on the graph the first call left
IngestTwice ==
    /\ fpc = "once"
    /\ fret' = [once |-> fret.once, twice |-> Ingest(fret.once, fcall.call)]
    /\ fpc' = "twice"
    /\ UNCHANGED fcall

NextGraph ==
    \/ IngestOnce /\ UNCHANGED <<clientVars, batchVars, expandVars, runVars, poolVars>>
    \/ IngestTwice /\ UNCHANGED <<clientVars, batchVars, expandVars, runVars, poolVars>>

SpecGraph == InitGraph /\ [][NextGraph]_vars

(***************************************************************************)
(* wikidata/mapping.py: enrich_keyword tasks on ThreadPoolExecutor.  Every *)
(* query function sets its query on the module-level SPARQLWrapper object  *)
(* `sparql`, sleeps, and then sends whatever query the object holds.       *)
(***************************************************************************)
\* ThreadPoolExecutor(max_workers=3)
MAX_WORKERS == 3

\* bound: keyword_entries submitted to the pool
NEntries == 3

Workers == 1..MAX_WORKERS

\* the first queries of a task: search_candidates, then is_disambiguation
\* or the fallback search_candidates
TaskQueries == <<"search_candidates", "second_query">>

NoTask == [entry |-> 0, step |-> 0]

\* the query text a task builds at a step: its own term or qid is in it
QueryOf(task) == <<task.entry, TaskQueries[task.step]>>

InitPool ==
    /\ ClientIdle
    /\ BatchIdle
    /\ ExpandIdle
    /\ RunIdle
    /\ CallIdle
    /\ entries = [i \in 1..NEntries |-> i]
    /\ w_pc = [w \in Workers |-> "free"]
    /\ w_task = [w \in Workers |-> NoTask]
    /\ sparql = <<0, "none">>
    /\ executed = {}

\* a free worker takes the next submitted entry and starts enrich_keyword
StartTask(w) ==
    /\ w_pc[w] = "free"
    /\ entries # <<>>
    /\ w_task' = [w_task EXCEPT ![w] = [entry |-> Head(entries), step |-> 1]]
    /\ entries' = Tail(entries)
    /\ w_pc' = [w_pc EXCEPT ![w] = "ready"]
    /\ UNCHANGED <<sparql, executed>>

\* sparql.setQuery(query)
SetQuery(w) ==
    /\ w_pc[w] = "ready"
    /\ sparql' = QueryOf(w_task[w])
    /\ w_pc' = [w_pc EXCEPT ![w] = "set"]
    /\ UNCHANGED <<entries, w_task, executed>>

\* time.sleep(...); sparql.query().convert(): the query the object holds now
\* is sent and its results go to this task
RunQuery(w) ==
    /\ w_pc[w] = "set"
    /\ executed' = executed \cup {[entry |-> w_task[w].entry, step |-> w_task[w].step,
                                   own |-> QueryOf(w_task[w]), sent |-> sparql]}
    /\ IF w_task[w].step < Len(TaskQueries)
       THEN /\ w_task' = [w_task EXCEPT ![w].step = @ + 1]
            /\ w_pc' = [w_pc EXCEPT ![w] = "ready"]
       ELSE /\ w_task' = [w_task EXCEPT ![w] = NoTask]
            /\ w_pc' = [w_pc EXCEPT ![w] = "free"]
    /\ UNCHANGED <<entries, sparql>>

NextPool ==
    \/ \E w \in Workers : StartTask(w) /\ UNCHANGED <<clientVars, batchVars, expandVars, runVars, callVars>>
    \/ \E w \in Workers : SetQuery(w) /\ UNCHANGED <<clientVars, batchVars, expandVars, runVars, callVars>>
    \/ \E w \in Workers : RunQuery(w) /\ UNCHANGED <<clientVars, batchVars, expandVars, runVars, callVars>>

SpecPool == InitPool /\ [][NextPool]_vars

(***************************************************************************)
(* The keyword consumers on the shapes a record's keywords arrive in.  A   *)
(* delimited string is a sequence of segments [piece, sep]: the piece (a   *)
(* word, possibly blank or surrounded by blanks) and the separator after   *)
(* it, "end" after the last.  A one-character string has a negative stem.  *)
(***************************************************************************)
\* bound: segments of a delimited string, and elements of a keyword list
MaxPieces == 2

\* bound: letters of a word, where a string is taken character by character
NLetters == 2

\* "bank", "river", " bank ", ""
ShapePieces == {Word(1, ""), Word(3, ""), [Word(1, "") EXCEPT !.pad = TRUE], EmptyStr}

Separators == {";", ","}

RECURSIVE SegmentsUpTo(_)
\* the delimited strings of at most n segments
SegmentsUpTo(n) ==
    IF n = 1 THEN {<<[piece |-> p, sep |-> "end"]>> : p \in ShapePieces}
    ELSE SegmentsUpTo(n - 1)
         \cup {<<[piece |-> p, sep |-> sp]>> \o t :
                 p \in ShapePieces, sp \in Separators,
                 t \in {u \in SegmentsUpTo(n - 1) : Len(u) = n - 1}}

\* the k-th letter of a word, a separator or a blank, as strings
OneLetter(word, k) == Word(0 - (10 * word.w + k), "")

OneChar(c) == Word(0 - 1, c)

RECURSIVE Chars(_)
\* what iterating a str yields: its characters, one string each
Chars(text) ==
    IF text = <<>> THEN <<>>
    ELSE LET p == Head(text).piece
             blank == IF p.pad THEN <<OneChar(" ")>> ELSE <<>>
             letters == IF p.w = 0 THEN <<>>
                        ELSE blank \o [k \in 1..NLetters |-> OneLetter(p, k)] \o blank
             sepchar == IF Head(text).sep = "end" THEN <<>> ELSE <<OneChar(Head(text).sep)>>
         IN  letters \o sepchar \o Chars(Tail(text))

\* re.split(r"[;,]", raw)
SplitPieces(text) == [i \in DOMAIN text |-> text[i].piece]

\* the record map_keywords reads, for keywords given under `key` as a list or
\* as a str
ShapeRecord(key, shape, value) ==
    [docid |-> 1, title |-> 1, ctx |-> <<>>,
     keyword_s |-> IF key # "keyword_s" THEN <<>>
                   ELSE IF shape = "list" THEN value ELSE Chars(value),
     keywords_joined |-> IF key = "keywords_joined" THEN SplitPieces(value) ELSE <<>>]

\* a string that holds several pieces and the ';' between them
Compound(pieces) == [parts |-> pieces]

RECURSIVE SplitComma(_, _)
\* [k.strip() for k in ks.split(",") if k.strip()], group the pieces read
\* since the last ','
SplitComma(text, group) ==
    IF text = <<>> THEN <<>>
    ELSE LET g == Append(group, Head(text).piece)
             kw == IF Len(g) > 1 THEN <<Compound(g)>>
                   ELSE IF g[1].w = 0 THEN <<>>
                   ELSE <<[g[1] EXCEPT !.pad = FALSE]>>
         IN  IF Head(text).sep = ";" THEN SplitComma(Tail(text), g)
             ELSE kw \o SplitComma(Tail(text), <<>>)

\* mapping.py: get_keywords(d) for d holding the keywords under keyword_s
get_keywords(shape, value) ==
    IF shape = "str" THEN SplitComma(value, <<>>) ELSE value

\* keyword lists of at most MaxPieces elements
ShapeLists == SeqsUpTo(ShapePieces \ {EmptyStr}, MaxPieces)

ShapeInputs ==
    {[consumer |-> c, key |-> "keyword_s", shape |-> "list", value |-> v] :
        c \in {"map_keywords", "get_keywords"}, v \in ShapeLists}
    \cup {[consumer |-> c, key |-> "keyword_s", shape |-> "str", value |-> v] :
            c \in {"map_keywords", "get_keywords"}, v \in SegmentsUpTo(MaxPieces)}
    \cup {[consumer |-> "map_keywords", key |-> "keywords_joined", shape |-> "str", value |-> v] :
            v \in SegmentsUpTo(MaxPieces)}

InitShapes ==
    /\ ClientIdle
    /\ BatchIdle
    /\ ExpandIdle
    /\ RunIdle
    /\ PoolIdle
    /\ fpc = "called"
    /\ fcall \in ShapeInputs
    /\ fret = EmptyDict

\* the keywords the inner loop of map_keywords runs over
MapKeywordsConsumer ==
    /\ fpc = "called"
    /\ fcall.consumer = "map_keywords"
    /\ fret' = [keywords |-> Keywords(ShapeRecord(fcall.key, fcall.shape, fcall.value))]
    /\ fpc' = "returned"
    /\ UNCHANGED fcall

\* the keywords mapping.py flattens into keyword_entries
GetKeywordsConsumer ==
    /\ fpc = "called"
    /\ fcall.consumer = "get_keywords"
    /\ fret' = [keywords |-> get_keywords(fcall.shape, fcall.value)]
    /\ fpc' = "returned"
    /\ UNCHANGED fcall

NextShapes ==
    \/ MapKeywordsConsumer /\ UNCHANGED <<clientVars, batchVars, expandVars, runVars, poolVars>>
    \/ GetKeywordsConsumer /\ UNCHANGED <<clientVars, batchVars, expandVars, runVars, poolVars>>

SpecShapes == InitShapes /\ [][NextShapes]_vars

(***************************************************************************)
(* Claims about the client.                                                *)
(***************************************************************************)
AllFailed(rs) == \A i \in DOMAIN rs : rs[i] = FALSE

\* C7: one call of _get issues at most 5 requests; it returns exactly when a
\* request has succeeded, that request is the last one the call issued (every
\* earlier one failed, none follows it); while fewer than 5 attempts have
\* failed the call goes on to another attempt; it raises only after 5 failed
\* requests.
C7_RetryDiscipline ==
    /\ Len(reqs) <= 5
    /\ AllFailed(SubSeq(reqs, 1, Len(reqs) - 1))
    /\ gpc = "returned" <=> (reqs # <<>> /\ Last(reqs) = TRUE)
    /\ gpc = "raised" => (Len(reqs) = 5 /\ AllFailed(reqs))
    /\ gpc = "attempt" => (AllFailed(reqs) /\ Len(reqs) < 5 /\ ENABLED AttemptSucceeds)

\* C7 witness: a call that returned on its fifth request, after four failures
C7_Witness == gpc = "returned" /\ Len(reqs) = 5

\* C8 (as claimed): the retry delays of one call are an exponential backoff
\* from 0.5 s: the first is 500 ms and consecutive delays keep one ratio > 1.
C8_ExponentialBackoff ==
    /\ (delays # <<>> => delays[1] = 500)
    /\ \A i \in 1..(Len(delays) - 1) : delays[i + 1] > delays[i]
    /\ \A i \in 2..(Len(delays) - 1) :
          delays[i] * delays[i] = delays[i - 1] * delays[i + 1]

\* C8 (amended): the retry delays of one call are a linear backoff from
\* 0.5 s: the first is 500 ms and every later one is 500 ms longer than the
\* one before it (500, 1000, 1500, 2000).
C8_LinearBackoff ==
    /\ (delays # <<>> => delays[1] = 500)
    /\ \A i \in 1..(Len(delays) - 1) : delays[i + 1] = delays[i] + 500

\* C8 witness: a call that has waited all four retry delays
C8_Witness == Len(delays) = 4

\* C9: every successful request is directly followed by the fixed delay of
\* its caller (100 ms for a search, 50 ms for an entity fetch), and no request
\* of the run is directly followed by another request: a positive sleep lies
\* between any two consecutive requests, whether the earlier one succeeded or
\* failed.
C9_DelayBetweenRequests ==
    /\ \A i \in DOMAIN trace :
          (trace[i].ev = "request" /\ trace[i].ok) =>
              /\ i < Len(trace)
              /\ trace[i + 1].ev = "sleep"
              /\ trace[i + 1].ms = (IF trace[i].kind = "search" THEN 100 ELSE 50)
    /\ \A i \in 1..(Len(trace) - 1) :
          trace[i].ev = "request" =>
              (trace[i + 1].ev = "sleep" /\ trace[i + 1].ms > 0)

\* C9 witness: a run in which a request followed a successful request and
\* another request followed a failed one
C9_Witness ==
    /\ \E i \in 1..(Len(trace) - 2) :
          trace[i].ev = "request" /\ trace[i].ok /\ trace[i + 2].ev = "request"
    /\ \E i \in 1..(Len(trace) - 2) :
          trace[i].ev = "request" /\ ~trace[i].ok /\ trace[i + 2].ev = "request"

(***************************************************************************)
(* Claims about wbgetentities.                                             *)
(***************************************************************************)
RECURSIVE Flatten(_)
Flatten(ss) == IF ss = <<>> THEN <<>> ELSE Head(ss) \o Flatten(Tail(ss))

\* C10: the batches sent are the id list cut into consecutive pieces, so every
\* entry of the list is in exactly one request (and every id of a list without
\* repetitions is in exactly one request); no request holds more than 50 ids
\* and none is empty; the keys of the result are exactly the ids the server
\* returned in some batch response: unknown ids are absent, and nothing an
\* earlier batch returned is missing.
C10_BatchAndMerge ==
    bpc = "done" =>
        /\ Flatten(b_sent) = b_ids
        /\ (NoDup(b_ids) =>
              \A i \in DOMAIN b_ids :
                  Cardinality({b \in DOMAIN b_sent : Contains(b_sent[b], b_ids[i])}) = 1)
        /\ \A b \in DOMAIN b_sent : Len(b_sent[b]) >= 1 /\ Len(b_sent[b]) <= 50
        /\ DOMAIN b_out =
              UNION {Range(b_sent[b]) \cap DOMAIN b_srv : b \in DOMAIN b_sent}
        /\ \A k \in DOMAIN b_out : b_out[k] = b_srv[k]

\* C10 witness: three batches, an id of the first batch known to the server
\* and in the result, and an id of the list unknown to the server
C10_Witness ==
    /\ bpc = "done"
    /\ Len(b_sent) = 3
    /\ \E i \in DOMAIN b_sent[1] : b_sent[1][i] \in DOMAIN b_out
    /\ \E i \in DOMAIN b_ids : b_ids[i] \notin DOMAIN b_srv

(***************************************************************************)
(* Claims about expand_p279_paths.                                         *)
(***************************************************************************)
\* C3: no returned path contains the same entity id twice, cyclic graphs
\* included.
C3_NoRepeatedIdInPath ==
    epc = "done" => \A i \in DOMAIN e_paths : NoDup(e_paths[i])

\* C4: the returned list never holds two identical id sequences.
C4_NoDuplicatePaths == epc = "done" => NoDup(e_paths)

\* C5: every returned path has at most max_levels entries.
C5_PathLengthBound ==
    epc = "done" => \A i \in DOMAIN e_paths : Len(e_paths[i]) <= e_levels

\* C5 witness: a branching graph in which a path was cut at max_levels >= 3
\* entries although its last node still has a superclass
C5_Witness ==
    /\ epc = "done"
    /\ e_levels >= 3
    /\ Len(e_paths) >= 2
    /\ \E i \in DOMAIN e_paths :
          /\ Len(e_paths[i]) = e_levels
          /\ Parents(e_graph, Last(e_paths[i])) # <<>>


(***************************************************************************)
(* Resolution claims, over SpecResolve and Spec.                           *)
(***************************************************************************)
\* the instance-of ids the server holds for q, {} when it does not return q
ServerP31(q) == IF q \in DOMAIN kb.ent THEN Range(kb.ent[q].p31) ELSE {}

\* the rows emitted for the pair of picks[i]
RowsOfPick(i) ==
    {j \in DOMAIN rows : rows[j].docid = picks[i].docid /\ rows[j].keyword = picks[i].kw}

Unresolved(row) ==
    /\ row.wikidata_qid = 0
    /\ row.wikidata_label = EmptyStr
    /\ row.match_stage = "none"

\* C1: whenever the candidate pick_with_context_then_exact chose is an entity
\* whose instance-of claims hold Q4167410, every row map_keywords emits for
\* that keyword is unresolved: no entity id, no label, match stage "none";
\* and no emitted row at all names such an entity.
C1_DisambiguationNeverEmitted ==
    /\ \A i \in DOMAIN picks :
          Q_DISAMBIGUATION \in ServerP31(picks[i].cand.id)
              => \A j \in RowsOfPick(i) : Unresolved(rows[j])
    /\ \A j \in DOMAIN rows : Q_DISAMBIGUATION \notin ServerP31(rows[j].wikidata_qid)

\* a disambiguation page was chosen in the stage st and its rows are emitted
DisambiguationChosenIn(st) ==
    \E i \in DOMAIN picks :
        /\ picks[i].cand.stage = st
        /\ Q_DISAMBIGUATION \in ServerP31(picks[i].cand.id)
        /\ RowsOfPick(i) # {}
        /\ \A j \in RowsOfPick(i) : rows[j].is_disambiguation

C1_Witness == DisambiguationChosenIn("context") /\ DisambiguationChosenIn("exact_label")

\* C2: no emitted row, and no candidate the resolver returns in either stage,
\* names an entity whose instance-of claims intersect DISALLOWED_P31.
C2_DisallowedNeverResolved ==
    /\ \A j \in DOMAIN rows : ServerP31(rows[j].wikidata_qid) \cap DISALLOWED_P31 = {}
    /\ \A i \in DOMAIN picks : ServerP31(picks[i].cand.id) \cap DISALLOWED_P31 = {}

\* q is a disallowed entity the searches return whose label is the keyword itself
BlockedExactVisible(q) ==
    /\ q \in DOMAIN kb.ent
    /\ Range(kb.ent[q].p31) \cap DISALLOWED_P31 # {}
    /\ kb.kind[q].prof = "exact"
    /\ kb.pattern = "all"

\* a row resolved in the stage st to another entity although a disallowed
\* entity carrying the keyword as its label came before it in the hits
ResolvedPastBlockedIn(st) ==
    \E j \in DOMAIN rows : \E q \in DOMAIN kb.ent :
        /\ rows[j].match_stage = st
        /\ rows[j].wikidata_qid # 0
        /\ BlockedExactVisible(q)
        /\ q < rows[j].wikidata_qid

C2_Witness == ResolvedPastBlockedIn("context") /\ ResolvedPastBlockedIn("exact_label")

\* the (docid, kw) pairs of the batch
InputPairs ==
    UNION {{<<records[i].docid, Keywords(records[i])[j]>> :
                j \in DOMAIN Keywords(records[i])} : i \in DOMAIN records}

\* C6: a client call that exhausts its retries aborts only the keyword being
\* resolved: map_keywords does not end by the exception, and the rows it
\* returns cover every other pair of the batch.
C6_FailureIsolation ==
    /\ pc # "raised"
    /\ pc = "returned" =>
          \A pair \in InputPairs \ failed :
              \E j \in DOMAIN result :
                  result[j].docid = pair[1] /\ result[j].keyword = pair[2]


(***************************************************************************)
(* Deduplication of (docid, kw) pairs, over Spec.                          *)
(***************************************************************************)
\* the positions (record, keyword index) of the input where `pair` occurs
Occurrences(pair) ==
    {<<i, j>> \in (DOMAIN records) \X (1..MaxKw) :
        /\ j \in DOMAIN Keywords(records[i])
        /\ <<records[i].docid, Keywords(records[i])[j]>> = pair}

RowsOfPair(pair) ==
    {j \in DOMAIN rows : rows[j].docid = pair[1] /\ rows[j].keyword = pair[2]}

MapWritesOf(pair) ==
    {j \in DOMAIN writes :
        writes[j].op = "document_map" /\ writes[j].a = pair[1] /\ writes[j].label = pair[2]}

\* C11: of the occurrences of one (docid, kw) pair only the first is
\* processed: the resolver is invoked once for the pair, its rows are one
\* group of consecutive rows, and at most one document-keyword-item upsert is
\* issued for it.
C11_FirstOccurrenceWins ==
    \A pair \in InputPairs :
        /\ Cardinality({i \in DOMAIN picks : <<picks[i].docid, picks[i].kw>> = pair}) <= 1
        /\ \A j1, j2 \in RowsOfPair(pair) : \A j \in j1..j2 : j \in RowsOfPair(pair)
        /\ \A j1, j2 \in RowsOfPair(pair) : rows[j1].wikidata_qid = rows[j2].wikidata_qid
        /\ Cardinality(MapWritesOf(pair)) <= 1

\* the run returned; a resolved pair occurs twice in one record and once more
\* in a second record of the same document
C11_Witness ==
    /\ pc = "returned"
    /\ Len(records) = 2
    /\ records[1].docid = records[2].docid
    /\ \E pair \in InputPairs :
          /\ \E o1, o2, o3 \in Occurrences(pair) : o1[1] = 1 /\ o2[1] = 1 /\ o1 # o2 /\ o3[1] = 2
          /\ RowsOfPair(pair) # {}
          /\ Cardinality(MapWritesOf(pair)) = 1


\* C12: in one run a (docid, normalized keyword) pair is resolved at most
\* once: two keywords of a document with equal normalize_kw results lead to
\* one invocation of the resolver and one row group.
C12_NormalizedPairOnce ==
    /\ \A i, j \in DOMAIN picks :
          (/\ picks[i].docid = picks[j].docid
           /\ normalize_kw(picks[i].kw) = normalize_kw(picks[j].kw)) => i = j
    /\ \A j1, j2 \in DOMAIN rows :
          (/\ rows[j1].docid = rows[j2].docid
           /\ normalize_kw(rows[j1].keyword) = normalize_kw(rows[j2].keyword))
              => rows[j1].keyword = rows[j2].keyword


(***************************************************************************)
(* Rows of one processed pair, over SpecResolve.                           *)
(***************************************************************************)
\* the paths the expansion returns for the superclasses of entity q
ServerPaths(q) ==
    IF q \in DOMAIN kb.ent /\ kb.ent[q].p279 # <<>>
    THEN expand_p279_paths(P279Graph(kb), kb.ent[q].p279, MAX_LEVELS_LINEAGE)
    ELSE <<>>

FirstRow(R) == CHOOSE j \in R : \A k \in R : j <= k

EmptyEntityFields(row) ==
    /\ row.wikidata_qid = 0
    /\ row.wikidata_label = EmptyStr
    /\ row.bnf_id = 0
    /\ row.p31_types = {}
    /\ row.p31_label = <<>>
    /\ row.p279_path = <<>>
    /\ row.match_stage = "none"
    /\ row.label_similarity = 0
    /\ row.match_score = 0

\* the rows R of one pair against the paths the expansion returned
RowGroupShape(R, paths) ==
    /\ Cardinality(R) = (IF paths = <<>> THEN 1 ELSE Len(paths))
    /\ \A j, k \in R : [rows[j] EXCEPT !.p279_path = <<>>] = [rows[k] EXCEPT !.p279_path = <<>>]
    /\ paths = <<>> => rows[FirstRow(R)].p279_path = <<>>
    /\ \A n \in DOMAIN paths : Len(rows[FirstRow(R) + n - 1].p279_path) = Len(paths[n])

\* C13: the rows of a processed pair are: one per returned path, equal but
\* for the path, when the entity is resolved with N >= 1 paths; one with an
\* empty path when it is resolved with no path; one with every entity field
\* empty, stage "none" and scores 0 when the keyword is unresolved.
C13_RowsPerPair ==
    \A i \in DOMAIN picks :
        LET R == RowsOfPick(i)
        IN  R # {} =>
              IF rows[FirstRow(R)].wikidata_qid # 0
              THEN RowGroupShape(R, ServerPaths(rows[FirstRow(R)].wikidata_qid))
              ELSE Cardinality(R) = 1 /\ EmptyEntityFields(rows[FirstRow(R)])

\* one pair resolved with several paths that are not all equal, another
\* resolved with no path
C13_Witness ==
    \E i, k \in DOMAIN picks :
        /\ \E j1, j2 \in RowsOfPick(i) :
              rows[j1].wikidata_qid # 0 /\ rows[j1].p279_path # rows[j2].p279_path
        /\ \E j \in RowsOfPick(k) :
              /\ rows[j].wikidata_qid # 0
              /\ rows[j].p279_path = <<>>
              /\ ServerPaths(rows[j].wikidata_qid) = <<>>


(***************************************************************************)
(* No-match conditions of the resolver, over SpecResolve.                  *)
(***************************************************************************)
\* the server holds a disallowed type for candidate q
TypeBlocked(q) == ServerP31(q) \cap DISALLOWED_P31 # {}

\* the label of candidate q is neither similar enough to kw nor kw's exact
\* label
BelowThresholds(q, kw) ==
    /\ label_similarity(kw, RawOf(kb, Hit(kb, q), "en")) < MIN_LABEL_SIM
    /\ Lower(normalize_kw(Hit(kb, q).label))
          \notin {Lower(normalize_kw(kw)), Lower(singularize_en(Lower(normalize_kw(kw))))}

\* every search returns zero hits, or every candidate is blocked or below the
\* thresholds with no exact label
NoMatchCondition(kw) ==
    \/ kb.pattern = "nothing"
    \/ \A q \in QIDs : TypeBlocked(q) \/ BelowThresholds(q, kw)

\* C14: in a no-match condition the resolver returns None and the rows of the
\* keyword are unresolved; map_keywords ends by an exception only when a
\* client call has exhausted its retries.
C14_NoMatchIsNotAnError ==
    /\ \A i \in DOMAIN picks : NoMatchCondition(picks[i].kw) => picks[i].cand = NoCand
    /\ \A i \in DOMAIN picks :
          picks[i].cand = NoCand => \A j \in RowsOfPick(i) : EmptyEntityFields(rows[j])
    /\ pc = "raised" => failed # {}

\* the searches return a disallowed candidate labelled with the keyword and an
\* allowed one below the thresholds; None was returned for two keywords and
\* the run returned their unresolved rows
C14_Witness ==
    /\ pc = "returned"
    /\ kb.pattern = "all"
    /\ \E q \in QIDs : TypeBlocked(q) /\ kb.kind[q].prof = "exact"
    /\ \E q \in QIDs : ~TypeBlocked(q) /\ \A i \in DOMAIN picks : BelowThresholds(q, picks[i].kw)
    /\ Len(picks) = 2
    /\ \A i \in DOMAIN picks :
          /\ picks[i].cand = NoCand
          /\ \E j \in DOMAIN result : result[j].keyword = picks[i].kw /\ Unresolved(result[j])


(***************************************************************************)
(* Scoring claims, over SpecScore.                                         *)
(***************************************************************************)
\* exact_bonus + context_overlap + 0.6 * label_similarity, in tenths, of the
\* returned values
ScoreSum(exact) ==
    (IF exact THEN 500 ELSE 0) + 10 * fret.context_overlap + 6 * fret.label_similarity

\* C15 as stated: total_score is exactBonus + contextOverlap + 0.6 x
\* labelSimilarity, with the bonus of 50 exactly when the normalized label
\* equals the normalized keyword or its singularized form.
C15_TotalScoreFormula ==
    fpc = "returned" =>
        fret.total_score =
            ScoreSum(\/ normalize_kw(fcall.c.label) = normalize_kw(fcall.keyword)
                     \/ normalize_kw(fcall.c.label) = singularize_en(normalize_kw(fcall.keyword)))

\* C15 amended: the same sum, with the bonus of 50 exactly when the
\* lower-cased normalized label equals the lower-cased normalized keyword or
\* the lower-cased singular form of it.
C15_TotalScoreLowerCased ==
    fpc = "returned" =>
        fret.total_score =
            ScoreSum(\/ Lower(normalize_kw(fcall.c.label)) = Lower(normalize_kw(fcall.keyword))
                     \/ Lower(normalize_kw(fcall.c.label))
                           = Lower(singularize_en(normalize_kw(fcall.keyword))))

\* "Bank" scored against the label "bank": the bonus is given, with a context
\* overlap on top
C15_Witness ==
    /\ fpc = "returned"
    /\ fcall.keyword.cap /\ ~fcall.c.label.cap
    /\ Lower(fcall.keyword) = fcall.c.label
    /\ fret.context_overlap > 0
    /\ fret.total_score = 500 + 10 * fret.context_overlap + 6 * fret.label_similarity

\* the lower-cased tokens of one word
WordTokens(s) == tokenize(<<s>>)

NoDuplicates(g) ==
    /\ \A i, j \in DOMAIN g.nodes :
          (g.nodes[i].kind = g.nodes[j].kind /\ g.nodes[i].key = g.nodes[j].key) => i = j
    /\ \A e, f \in DOMAIN g.edges : g.edges[e] = g.edges[f] => e = f

\* C17: an ingest call applied a second time with the same arguments leaves
\* the nodes, labels and edges the first application left, and neither
\* application creates a node with a duplicate key or a duplicate edge.
C17_UpsertIdempotent ==
    /\ fpc \in {"once", "twice"} => NoDuplicates(fret.once)
    /\ fpc = "twice" => fret.twice = fret.once

\* a hierarchy call with a path back to the entity was applied twice to a
\* graph that held other nodes, and added nodes and edges to it
C17_Witness ==
    /\ fpc = "twice"
    /\ fcall.call.fn = "ingest_p279_hierarchy"
    /\ \E i \in DOMAIN fcall.call.paths : Contains(fcall.call.paths[i], fcall.call.qid)
    /\ fcall.graph.nodes # <<>>
    /\ Len(fret.twice.nodes) > Len(fcall.graph.nodes)
    /\ Len(fret.twice.edges) > Len(fcall.graph.edges)


(***************************************************************************)
(* The worker pool of mapping.py, over SpecPool.                           *)
(***************************************************************************)
\* C18: under every interleaving of the workers each task sends, and gets the
\* results of, exactly the query it set itself.
C18_TaskRunsOwnQuery == \A x \in executed : x.sent = x.own


(***************************************************************************)
(* Keyword shapes, over SpecShapes.                                        *)
(***************************************************************************)
\* the non-empty trimmed pieces of a delimited string, split at ';' and ','
TrimmedPieces(text) ==
    LET keep == AscSeq({i \in DOMAIN text : text[i].piece.w # 0})
    IN  [i \in DOMAIN keep |-> [text[keep[i]].piece EXCEPT !.pad = FALSE]]

\* C19: for a list every element is one keyword; for a single delimited
\* string every non-empty trimmed piece between ';' and ',' is one keyword;
\* no consumer yields single characters or a string with a ';' left in it.
C19_BothShapesNormalized ==
    fpc = "returned" =>
        fret.keywords = (IF fcall.shape = "list" THEN fcall.value
                         ELSE TrimmedPieces(fcall.value))


(***************************************************************************)
(* Determinism of the resolver, over Spec: the knowledge base of a run     *)
(* answers every request the same way throughout the run.                  *)
(***************************************************************************)
\* the context the resolver was given for picks[i]
ContextOfPick(i) ==
    LET r == CHOOSE n \in DOMAIN records : records[n].docid = picks[i].docid
    IN  records[r].ctx

ContextOver == fpc \in {"ExactLabelSearch", "Terminal"}

\* both thresholds, on the numbers the candidate carries
MeetsThresholds(c) ==
    c.label_similarity >= MIN_LABEL_SIM /\ c.match_score >= 10 * MIN_TOTAL_SCORE

\* C21: a result of the context stage is the top-ranked survivor and meets both
\* thresholds (similarity >= 70, score >= 30); a top-ranked survivor that meets
\* both is accepted; when it fails one the context stage accepts nothing,
\* whatever the survivors ranked below it.
C21_ContextAcceptsTopIffGates ==
    /\ ContextOver =>
          (fret.result.stage = "context" =>
              /\ "ExactLabelSearch" \notin Range(fret.trail)
              /\ MeetsThresholds(fret.result)
              /\ fret.result = [Head(fret.candidates) EXCEPT !.stage = "context"])
    /\ fpc = "Terminal" =>
          ((fret.candidates # <<>> /\ MeetsThresholds(Head(fret.candidates)))
              <=> fret.result.stage = "context")

\* the top survivor fails a threshold, one ranked below it meets both, and the
\* context stage accepted nothing
C21_Witness ==
    /\ fpc = "Terminal"
    /\ Len(fret.candidates) >= 2
    /\ ~MeetsThresholds(Head(fret.candidates))
    /\ \E i \in DOMAIN fret.candidates : i > 1 /\ MeetsThresholds(fret.candidates[i])
    /\ fret.result.stage # "context"


\* the orders of stages a call can have gone through
StageOrders ==
    { <<"ContextSearch">>,
      <<"ContextSearch", "Terminal">>,
      <<"ContextSearch", "ExactLabelSearch">>,
      <<"ContextSearch", "ExactLabelSearch", "Terminal">> }

\* the context stage accepted no candidate: no pool, no survivor, or the top
\* survivor below a threshold
NothingAccepted ==
    \/ fret.raw = <<>>
    \/ fret.candidates = <<>>
    \/ ~MeetsThresholds(Head(fret.candidates))

\* C22: the resolver goes NotStarted -> ContextSearch -> ExactLabelSearch ->
\* Terminal; the exact-label stage runs exactly when the context stage accepted
\* nothing, only after the context stage, and an acceptance by the context
\* stage ends the call.
C22_StageOrder ==
    /\ fpc = "NotStarted" <=> fret = EmptyDict
    /\ fpc # "NotStarted" =>
          /\ fret.trail \in StageOrders
          /\ fret.trail[Len(fret.trail)] = fpc
    /\ ContextOver => ("ExactLabelSearch" \in Range(fret.trail) <=> NothingAccepted)
    /\ fpc = "Terminal" =>
          /\ fret.result = pick_with_context_then_exact(fcall.k, fcall.keyword, fcall.context)
          /\ fret.result.stage = "context" => fret.trail = <<"ContextSearch", "Terminal">>
          /\ fret.result.stage = "exact_label" => "ExactLabelSearch" \in Range(fret.trail)

\* the exact-label stage ran after a survivor failed a threshold, and found
\* an entity
C22_Witness ==
    /\ fpc = "Terminal"
    /\ fret.trail = <<"ContextSearch", "ExactLabelSearch", "Terminal">>
    /\ fret.candidates # <<>>
    /\ fret.result.stage = "exact_label"


\* the instance-of ids the server of the call holds for q
CallP31(q) == IF q \in DOMAIN fcall.k.ent THEN Range(fcall.k.ent[q].p31) ELSE {}

\* the position of a candidate in the pool
PoolIndex(c) == CHOOSE i \in DOMAIN fret.raw : fret.raw[i].id = c.id

\* exactBonus + contextOverlap + 0.6 x labelSimilarity of a candidate of the call
TotalScoreOf(c) == total_score(normalize_kw(fcall.keyword), fcall.context, c, TRUE)

\* a triple below another, the first component deciding, then the second, ...
TripleBelow(x, y) ==
    \/ x[1] < y[1]
    \/ x[1] = y[1] /\ x[2] < y[2]
    \/ x[1] = y[1] /\ x[2] = y[2] /\ x[3] < y[3]

\* the primary language ranks above the secondary one
LanguagePriority(c) == 0 - LangIndex(c.language)

StatedKey(c) == <<TotalScoreOf(c), c.label_similarity, LanguagePriority(c)>>

MatchKey(c) == <<c.match_score, c.label_similarity, LanguagePriority(c)>>

\* the pool's unblocked hits, each once
AreTheSurvivors(cands) ==
    /\ \A i, j \in DOMAIN cands : cands[i].id = cands[j].id => i = j
    /\ {cands[i].id : i \in DOMAIN cands}
          = {fret.raw[i].id : i \in {n \in DOMAIN fret.raw :
                                CallP31(fret.raw[n].id) \cap DISALLOWED_P31 = {}}}

\* C23 as stated: the survivors are ranked in descending order of (totalScore,
\* labelSimilarity, language priority) with totalScore = exactBonus +
\* contextOverlap + 0.6 x labelSimilarity, ties in pool order, and the context
\* stage selects the first.
C23_RankedByTotalScore ==
    fpc # "NotStarted" =>
        /\ AreTheSurvivors(fret.candidates)
        /\ \A i, j \in DOMAIN fret.candidates :
              i < j => /\ ~TripleBelow(StatedKey(fret.candidates[i]), StatedKey(fret.candidates[j]))
                       /\ StatedKey(fret.candidates[i]) = StatedKey(fret.candidates[j])
                             => PoolIndex(fret.candidates[i]) < PoolIndex(fret.candidates[j])
        /\ fret.result.stage = "context" => fret.result.id = fret.candidates[1].id

\* C23 amended: the first key of the ranking is the match score, totalScore plus
\* the type bonus (30 for a preferred type); the rest as stated.
C23_RankedByMatchScore ==
    fpc # "NotStarted" =>
        /\ AreTheSurvivors(fret.candidates)
        /\ \A i \in DOMAIN fret.candidates :
              /\ fret.candidates[i].match_score
                    = TotalScoreOf(fret.candidates[i])
                      + (IF CallP31(fret.candidates[i].id) \cap PREFERRED_P31 # {} THEN 300 ELSE 0)
              /\ fret.candidates[i].label_similarity
                    = label_similarity(normalize_kw(fcall.keyword), fret.candidates[i])
        /\ \A i, j \in DOMAIN fret.candidates :
              i < j => /\ ~TripleBelow(MatchKey(fret.candidates[i]), MatchKey(fret.candidates[j]))
                       /\ MatchKey(fret.candidates[i]) = MatchKey(fret.candidates[j])
                             => PoolIndex(fret.candidates[i]) < PoolIndex(fret.candidates[j])
        /\ fret.result.stage = "context" => fret.result.id = fret.candidates[1].id

\* the context stage selected the first of two survivors with equal score and
\* similarity, which the language priority had moved in front of an earlier hit
C23_Witness ==
    /\ fpc = "Terminal"
    /\ fret.result.stage = "context"
    /\ \E i, j \in DOMAIN fret.candidates :
          i < j /\ PoolIndex(fret.candidates[i]) > PoolIndex(fret.candidates[j])
                /\ fret.candidates[i].match_score = fret.candidates[j].match_score
                /\ fret.candidates[i].label_similarity = fret.candidates[j].label_similarity


\* the hits the exact-label stage goes through: the languages in configured
\* order, the hits of a language in server order, each with its language
ExactHits ==
    TaggedHits(fcall.k, Lower(singularize_en(Lower(normalize_kw(fcall.keyword)))), LANGS)

\* the normalized label equals the normalized keyword or its singular form
LabelEqualsKeyword(h) ==
    normalize_kw(h.label) \in {normalize_kw(fcall.keyword),
                               singularize_en(normalize_kw(fcall.keyword))}

\* the same, all strings lower-cased
LabelEqualsKeywordLowerCased(h) ==
    Lower(normalize_kw(h.label)) \in {Lower(normalize_kw(fcall.keyword)),
                                      Lower(singularize_en(normalize_kw(fcall.keyword)))}

Unblocked(h) == CallP31(h.id) \cap DISALLOWED_P31 = {}

\* the result of the exact-label stage is the first hit of ExactHits that
\* satisfies Qualifies, with the stated stage, similarity and score; it is
\* none exactly when no hit does
ExactResultIsFirst(Qualifies(_)) ==
    LET hits == ExactHits
        good == {i \in DOMAIN hits : Qualifies(hits[i][1]) /\ Unblocked(hits[i][1])}
    IN  (fpc = "Terminal" /\ "ExactLabelSearch" \in Range(fret.trail)) =>
            /\ fret.result = NoCand <=> good = {}
            /\ fret.result # NoCand =>
                  LET first == CHOOSE i \in good : \A j \in good : i <= j
                  IN  /\ fret.result.id = hits[first][1].id
                      /\ fret.result.label = hits[first][1].label
                      /\ fret.result.language = hits[first][2]
                      /\ fret.result.stage = "exact_label"
                      /\ fret.result.label_similarity = 100
                      /\ fret.result.match_score
                            = 500 + (IF CallP31(fret.result.id) \cap PREFERRED_P31 # {}
                                     THEN 300 ELSE 0)
                      /\ fret.result.match_score \in {500, 800}

\* C24 as stated: a result of the exact-label stage is the first hit, languages
\* in configured order and hits in server order, whose normalized label equals
\* the normalized keyword or its singular form and whose types are not blocked,
\* with stage "exact_label", similarity 100 and score 50 plus the type bonus.
C24_FirstExactHit == ExactResultIsFirst(LabelEqualsKeyword)

\* C24 amended: the labels are compared lower-cased.
C24_FirstExactHitLowerCased == ExactResultIsFirst(LabelEqualsKeywordLowerCased)

\* the exact-label stage passed over a blocked hit with a matching label and
\* returned a later one, whose label differs from the keyword in case
C24_Witness ==
    /\ fpc = "Terminal"
    /\ fret.result.stage = "exact_label"
    /\ ~LabelEqualsKeyword(fret.result)
    /\ \E i \in DOMAIN ExactHits :
          /\ LabelEqualsKeywordLowerCased(ExactHits[i][1])
          /\ ~Unblocked(ExactHits[i][1])
          /\ \E j \in DOMAIN ExactHits : j > i /\ ExactHits[j][1].id = fret.result.id


\* C29: in the context stage a survivor whose label similarity is at least
\* MIN_LABEL_SIM has a match score (exact bonus + context overlap + 0.6 x
\* similarity + type bonus) of at least MIN_TOTAL_SCORE, so the top survivor
\* is accepted exactly when its similarity reaches the threshold.
C29_ScoreGateNeverDecides ==
    fpc # "NotStarted" =>
        /\ \A i \in DOMAIN fret.candidates :
              fret.candidates[i].label_similarity >= MIN_LABEL_SIM
                  => fret.candidates[i].match_score >= 10 * MIN_TOTAL_SCORE
        /\ fpc = "Terminal" =>
              (fret.result.stage = "context"
                  <=> (/\ fret.candidates # <<>>
                       /\ Head(fret.candidates).label_similarity >= MIN_LABEL_SIM))

\* the context stage accepted a survivor whose similarity is exactly the
\* threshold and whose score has no other term: no exact bonus, no context
\* overlap, no type bonus
C29_Witness ==
    /\ fpc = "Terminal"
    /\ fret.result.stage = "context"
    /\ fret.result.label_similarity = MIN_LABEL_SIM
    /\ fret.result.match_score = 6 * MIN_LABEL_SIM


(***************************************************************************)
(* Shape and termination of the hierarchy expansion, over SpecExpand and   *)
(* SpecLevels.                                                             *)
(***************************************************************************)
\* a chain of superclasses from a direct superclass id that ends where there
\* is no superclass or has max_levels entries
WellFormedPath(graph, start_parents, max_levels, path) ==
    /\ path # <<>>
    /\ path[1] \in Range(start_parents)
    /\ \A n \in 1..(Len(path) - 1) : path[n + 1] \in Range(Parents(graph, path[n]))
    /\ \/ Parents(graph, Last(path)) = <<>>
       \/ Len(path) = max_levels

\* C25: every path returned by expand_p279_paths starts with a direct
\* superclass id, continues with a superclass of the entry before, and ends at
\* an entity without superclass or has exactly max_levels entries; every direct
\* superclass id starts at least one returned path.
C25_PathsAreSuperclassChains ==
    epc = "done" =>
        /\ \A i \in DOMAIN e_paths : WellFormedPath(e_graph, e_start, e_levels, e_paths[i])
        /\ \A n \in DOMAIN e_start : \E i \in DOMAIN e_paths : e_paths[i][1] = e_start[n]

\* two direct superclasses: the path of one ends early at an entity without
\* superclass, a path of the other is cut at max_levels entries
C25_Witness ==
    /\ epc = "done"
    /\ Len(e_start) = 2
    /\ \E i, j \in DOMAIN e_paths :
          /\ e_paths[i][1] # e_paths[j][1]
          /\ Len(e_paths[i]) < e_levels
          /\ Parents(e_graph, Last(e_paths[i])) = <<>>
          /\ Len(e_paths[j]) = e_levels
          /\ Parents(e_graph, Last(e_paths[j])) # <<>>


\* at most max_levels - 1 expansion levels are performed, no path grows beyond
\* max_levels entries, and what is returned is the result of the function
LevelsWithinBound ==
    fpc # "called" =>
        /\ fret.level <= fcall.max_levels - 1
        /\ \A i \in DOMAIN fret.frontier : Len(fret.frontier[i]) <= fret.level + 1
        /\ fpc = "returned" =>
              fret.paths = expand_p279_paths(fcall.graph, fcall.start_parents, fcall.max_levels)

\* C28: expand_p279_paths returns for every max_levels and every subclass-of
\* graph, cyclic ones included, when every client call returns; it performs at
\* most max_levels - 1 expansion levels and no path grows without bound.
C28_ExpansionTerminates == []LevelsWithinBound /\ <>(fpc = "returned")

\* a call on a graph with a cycle through its start has used every one of its
\* max_levels - 1 levels and returned a path that goes round the cycle
C28_Witness ==
    /\ fpc = "returned"
    /\ fcall.max_levels >= 3
    /\ fret.level = fcall.max_levels - 1
    /\ \E i \in DOMAIN fret.paths :
          /\ Len(fret.paths[i]) = fcall.max_levels
          /\ ~NoDup(fret.paths[i])


(***************************************************************************)
(* Discarded resolutions and graph writes, over SpecResolve.               *)
(***************************************************************************)
\* the ranked survivors of the resolver invocation picks[i]
SurvivorsOfPick(i) ==
    ContextCandidates(kb, normalize_kw(picks[i].kw), ContextOfPick(i))

\* the pool of picks[i] holds another survivor that is no disambiguation page
\* and meets both thresholds
OtherGoodSurvivor(i) ==
    \E n \in DOMAIN SurvivorsOfPick(i) :
        /\ SurvivorsOfPick(i)[n].id # picks[i].cand.id
        /\ Q_DISAMBIGUATION \notin ServerP31(SurvivorsOfPick(i)[n].id)
        /\ MeetsThresholds(SurvivorsOfPick(i)[n])

\* the pass of picks[i] is over
PassOver(i) == i < Len(picks) \/ pc \in {"running", "returned"}

\* C26: when the candidate a stage accepted is a disambiguation page the
\* keyword ends unresolved: the resolver was invoked once for it, and its pass
\* emits one row without entity, whatever other survivors the pool holds.
C26_DisambiguationDiscardsResolution ==
    \A i \in DOMAIN picks :
        (Q_DISAMBIGUATION \in ServerP31(picks[i].cand.id) /\ PassOver(i)) =>
            /\ Cardinality(RowsOfPick(i)) = 1
            /\ \A j \in RowsOfPick(i) :
                  /\ Unresolved(rows[j])
                  /\ EmptyEntityFields(rows[j])
                  /\ rows[j].is_disambiguation
            /\ Cardinality({n \in DOMAIN picks :
                              picks[n].docid = picks[i].docid /\ picks[n].kw = picks[i].kw}) = 1

\* the context stage accepted a disambiguation page while another survivor of
\* the pool, no disambiguation page, meets both thresholds; the keyword's row
\* is unresolved
C26_Witness ==
    \E i \in DOMAIN picks :
        /\ picks[i].cand.stage = "context"
        /\ Q_DISAMBIGUATION \in ServerP31(picks[i].cand.id)
        /\ OtherGoodSurvivor(i)
        /\ PassOver(i)
        /\ \E j \in RowsOfPick(i) : Unresolved(rows[j])


\* the rows and the upserts a step appended
NewRows == SubSeq(rows', Len(rows) + 1, Len(rows'))

NewWrites == SubSeq(writes', Len(writes) + 1, Len(writes'))

\* the step is the pass of one keyword after the resolver returned
PassStep == pc = "picked" /\ pc' = "running"

\* C30: the pass of a keyword whose outcome is unresolved (no candidate, entity
\* detail missing, disambiguation page) issues no graph upsert; the pass of a
\* resolved keyword issues the document-keyword-entity upsert exactly once, for
\* its own document, keyword and entity.
C30_UpsertsOnlyWhenResolved ==
    [][PassStep =>
          /\ writes = SubSeq(writes', 1, Len(writes))
          /\ NewRows # <<>>
          /\ NewRows[1].wikidata_qid = 0 => NewWrites = <<>>
          /\ NewRows[1].wikidata_qid # 0 =>
                /\ Cardinality({n \in DOMAIN NewWrites : NewWrites[n].op = "document_map"}) = 1
                /\ \A n \in DOMAIN NewWrites :
                      NewWrites[n].op = "document_map" =>
                          NewWrites[n] = Op("document_map", CurPair[1],
                                            NewRows[1].wikidata_qid, CurPair[2])]_vars

\* one record, two keywords: the first resolved and mapped once, the second
\* unresolved because a disambiguation page was accepted, with no upsert for it
C30_Witness ==
    /\ pc = "returned"
    /\ Len(picks) = 2
    /\ \E j \in RowsOfPick(1) : rows[j].wikidata_qid # 0
    /\ \E j \in RowsOfPick(2) : Unresolved(rows[j]) /\ rows[j].is_disambiguation
    /\ Cardinality({n \in DOMAIN writes : writes[n].op = "document_map"}) = 1
    /\ \A n \in DOMAIN writes : writes[n].a # picks[2].cand.id /\ writes[n].b # picks[2].cand.id


(***************************************************************************)
(* Label lookups for the hierarchy, over SpecLabels.                       *)
(***************************************************************************)
\* C27: for a resolved keyword the labels of the ids of the returned hierarchy
\* paths are fetched by one batched lookup over the union of those ids, not by
\* one lookup per path or per node.
C27_OneBatchedLabelLookup ==
    fpc = "returned" =>
        /\ Len(fret.lookups) = 1
        /\ fret.lookups[1] = UNION {Range(fret.qid_paths[i]) : i \in DOMAIN fret.qid_paths}

=========================================================================
